---- MODULE Spec2Model ----
(***************************************************************************)
(* Query-transformation and batch-extraction engine                        *)
(* (processors/query_processor.py, processors/data_processor.py).          *)
(*                                                                         *)
(* SQL text is a sequence of lexical tokens; consecutive tokens stand for  *)
(* text separated by white space, so \s+ / \s* of the source's regular     *)
(* expressions is the step from one token to the next and str.strip() has  *)
(* nothing to remove.  The token alphabet has no identifier that ends in   *)
(* or starts with a keyword, so a keyword of a pattern matches a whole     *)
(* token.  re.IGNORECASE is the Fold of a token to upper case.             *)
(***************************************************************************)
EXTENDS Integers, Sequences, FiniteSets, TLC

\* ------------------------------------------------------------ bounds
MaxCtes == 2
MaxOffset == 2
MaxBatchSize == 2

\* ------------------------------------------------------------ tokens
\* the MySQL identifier quote character (U+0060)
BackQuote == "<backquote>"

Punct ==
    {"(", ")", ",", "*", ">", "<=", ":last_run_time", "COUNT(*)",
     "ROW_NUMBER()", "[", "]", BackQuote}

\* \w+ : a token made of word characters only
IsWord(t) == t \notin Punct

\* re.IGNORECASE
Fold(t) ==
    CASE t = "with" -> "WITH"
      [] t = "as" -> "AS"
      [] t = "select" -> "SELECT"
      [] t = "from" -> "FROM"
      [] t = "where" -> "WHERE"
      [] OTHER -> t

Min(S) == CHOOSE x \in S : \A y \in S : x <= y

Tail0(s, i) == IF i > Len(s) THEN <<>> ELSE SubSeq(s, i, Len(s))

\* str(int) of an f-string, and the database reading the literal back
NumRange == 0 .. 40
NumTok(n) == ToString(n)
ParseNum(tok) == CHOOSE n \in NumRange : ToString(n) = tok
IsNum(tok) == \E n \in NumRange : ToString(n) = tok

\* ------------------------------------------------------------ dialect
_get_limit_clause(database_type) ==
    IF database_type = "mysql" THEN <<"LIMIT", "1">> ELSE <<"TOP", "1">>

_get_column_quote(database_type) ==
    IF database_type = "mysql" THEN BackQuote ELSE "["

_get_column_quote_close(database_type) ==
    IF database_type = "mysql" THEN BackQuote ELSE "]"

_adjust_parameter_placeholder(sql, database_type) == sql

\* ------------------------------------------------------------ patterns
\* r'WITH\s+(\w+)\s+AS\s*\(' matching at token i
MatchWith(sql, i) ==
    /\ i >= 1
    /\ i + 3 <= Len(sql)
    /\ Fold(sql[i]) = "WITH"
    /\ IsWord(sql[i + 1])
    /\ Fold(sql[i + 2]) = "AS"
    /\ sql[i + 3] = "("

\* re.finditer(with_pattern): the start positions (matches cannot overlap)
WithMatches(sql) == {i \in 1 .. Len(sql) : MatchWith(sql, i)}

\* r'WITH\s+(\w+)\s+AS\s*\((.*?)\)' : lazy body, first ")" at or after i+4
CteCloseAt(sql, i) == {j \in (i + 4) .. Len(sql) : sql[j] = ")"}

RECURSIVE CteMatchesFrom(_, _)
CteMatchesFrom(sql, start) ==
    LET cands == {i \in start .. Len(sql) :
                     MatchWith(sql, i) /\ CteCloseAt(sql, i) # {}}
    IN  IF cands = {} THEN <<>>
        ELSE LET i == Min(cands)
                 j == Min(CteCloseAt(sql, i))
             IN  <<[name |-> sql[i + 1], first |-> i, last |-> j]>>
                     \o CteMatchesFrom(sql, j + 1)

\* r'WITH\s+(\w+)\s+AS\s*\((.*?)\)\s*(SELECT.*)' with re.search: leftmost
\* start, then the first ")" that is followed by SELECT
SelectCloseAt(sql, i) ==
    {j \in (i + 4) .. (Len(sql) - 1) :
        sql[j] = ")" /\ Fold(sql[j + 1]) = "SELECT"}

SinglePatternSearchWrongGroup(sql) ==
    LET cands == {i \in 1 .. Len(sql) :
                     MatchWith(sql, i) /\ SelectCloseAt(sql, i) # {}}
    IN  IF cands = {}
        THEN [found |-> FALSE, name |-> "", first |-> 0, last |-> 0]
        ELSE LET i == Min(cands)
             IN  [found |-> TRUE, name |-> sql[i + 4], first |-> i,
                  last |-> Min(SelectCloseAt(sql, i))]

SinglePatternSearch(sql) ==
    LET cands == {i \in 1 .. Len(sql) :
                     MatchWith(sql, i) /\ SelectCloseAt(sql, i) # {}}
    IN  IF cands = {}
        THEN [found |-> FALSE, name |-> "", first |-> 0, last |-> 0]
        ELSE LET i == Min(cands)
             IN  [found |-> TRUE, name |-> sql[i + 1], first |-> i,
                  last |-> Min(SelectCloseAt(sql, i))]

\* the looser pattern
\* r'WITH\s+(\w+)\s+AS\s*\((.*?)\)(?:\s*,\s*(\w+)\s+AS\s*\((.*?)\))*\s*(SELECT.*)'
\* FlexTail(sql, p, extra): from a ")" at p, the repeated ", name AS ( .. )"
\* groups (greedy) and then SELECT; the result is the set of
\* <<name of the last repeated group or "", position of SELECT>>
RECURSIVE FlexTail(_, _, _)
FlexTail(sql, p, extra) ==
    LET more ==
            IF /\ p + 4 <= Len(sql)
               /\ sql[p + 1] = ","
               /\ IsWord(sql[p + 2])
               /\ Fold(sql[p + 3]) = "AS"
               /\ sql[p + 4] = "("
            THEN UNION {FlexTail(sql, q, sql[p + 2]) :
                           q \in {q \in (p + 5) .. Len(sql) : sql[q] = ")"}}
            ELSE {}
        here ==
            IF p + 1 <= Len(sql) /\ Fold(sql[p + 1]) = "SELECT"
            THEN {<<extra, p + 1>>}
            ELSE {}
    IN  more \cup here

FlexiblePatternSearch(sql) ==
    LET ends(i) == UNION {FlexTail(sql, j, "") : j \in CteCloseAt(sql, i)}
        cands == {i \in 1 .. Len(sql) : MatchWith(sql, i) /\ ends(i) # {}}
    IN  IF cands = {}
        THEN [found |-> FALSE, name |-> "", extra |-> "", main |-> <<>>]
        ELSE LET i == Min(cands)
                 e == CHOOSE e \in ends(i) : \A f \in ends(i) : e[2] <= f[2]
             IN  [found |-> TRUE, name |-> sql[i + 1], extra |-> e[1],
                  main |-> Tail0(sql, e[2])]

\* ------------------------------------------------------------ CTE analyzer
NoAnalysis ==
    [has_with |-> FALSE, cte_count |-> 0, cte_names |-> <<>>,
     main_query |-> <<>>, is_complex |-> FALSE]

\* the statements inside the try of the multi-CTE branch: is_complex is
\* already True; cte_matches[-1] raises IndexError when cte_pattern (which
\* needs a closing parenthesis) matches nowhere
ComplexWithParse(sql, base) ==
    LET cte_matches == CteMatchesFrom(sql, 1)
    IN  IF cte_matches = <<>>
        THEN [raised |-> TRUE, analysis |-> [base EXCEPT !.is_complex = TRUE]]
        ELSE [raised |-> FALSE,
              analysis |->
                  [base EXCEPT
                     !.is_complex = TRUE,
                     !.cte_names = [k \in 1 .. Len(cte_matches) |->
                                       cte_matches[k].name],
                     !.main_query =
                         Tail0(sql, cte_matches[Len(cte_matches)].last + 1)]]

ComplexWithHandlerMissing(parse) == parse

\* except Exception of the multi-CTE branch: logs, is_complex = False
ComplexWithHandler(parse) ==
    IF parse.raised
    THEN [raised |-> FALSE,
          analysis |-> [parse.analysis EXCEPT !.is_complex = FALSE]]
    ELSE parse

\* the call: whether an exception leaves it, and the dictionary it returns
AnalyzeCall(sql) ==
    LET with_matches == WithMatches(sql)
        single == SinglePatternSearch(sql)
        flex == FlexiblePatternSearch(sql)
        base == [NoAnalysis EXCEPT !.has_with = TRUE,
                                   !.cte_count = Cardinality(with_matches)]
        returns(analysis) == [raised |-> FALSE, analysis |-> analysis]
    IN  IF with_matches = {} THEN returns(NoAnalysis)
        ELSE IF Cardinality(with_matches) > 1
        THEN ComplexWithHandler(ComplexWithParse(sql, base))
        ELSE IF single.found
        THEN returns([base EXCEPT !.cte_names = <<single.name>>,
                                  !.main_query = Tail0(sql, single.last + 1)])
        ELSE IF flex.found
        THEN returns([base EXCEPT
                        !.cte_names = IF flex.extra # ""
                                      THEN <<flex.name, flex.extra>>
                                      ELSE <<flex.name>>,
                        !.is_complex = (flex.extra # ""),
                        !.main_query = flex.main])
        ELSE returns(base)

_analyze_with_structure(sql) == AnalyzeCall(sql).analysis

_has_with_clause(sql) == WithMatches(sql) # {}

\* ------------------------------------------------------------ dialect resolver
\* Python's None
None == "<None>"

\* a db_config object without a type attribute
NoTypeAttribute == "<no type attribute>"

\* database_manager.app_config.databases of the run: name -> db_config.type
AppConfigDatabases == [main_db |-> "MSSQL", sub_db |-> "MySQL"]

\* database_manager: app_config is <<>> when not set
DatabaseManager(app_config) == [app_config |-> app_config]

AppConfig(databases) == [databases |-> databases]

\* str.lower()
Lower(t) ==
    CASE t = "MSSQL" -> "mssql"
      [] t = "MySQL" -> "mysql"
      [] t = "Oracle" -> "oracle"
      [] OTHER -> t

ResolveDatabaseTypeUnguarded(database_manager, database_name) ==
    IF database_manager.app_config = <<>>
    THEN [raised |-> FALSE, value |-> "mssql"]
    ELSE LET databases == database_manager.app_config[1].databases
         IN  IF database_name \notin DOMAIN databases
             THEN [raised |-> FALSE, value |-> "mssql"]
             ELSE IF databases[database_name] \in {NoTypeAttribute, None}
             THEN [raised |-> TRUE, value |-> None]
             ELSE [raised |-> FALSE,
                   value |-> Lower(databases[database_name])]

\* _get_database_type against a given database manager: db_config.type.lower()
\* raises AttributeError without a type attribute or with type None, and the
\* except clause returns 'mssql'
ResolveDatabaseType(database_manager, database_name) ==
    IF database_manager.app_config = <<>>
    THEN [raised |-> FALSE, value |-> "mssql"]
    ELSE LET databases == database_manager.app_config[1].databases
         IN  IF database_name \notin DOMAIN databases
             THEN [raised |-> FALSE, value |-> "mssql"]
             ELSE IF databases[database_name] \in {NoTypeAttribute, None}
             THEN [raised |-> FALSE, value |-> "mssql"]
             ELSE [raised |-> FALSE,
                   value |-> Lower(databases[database_name])]

\* _get_database_type of the run's database manager
_get_database_type(database_name) ==
    ResolveDatabaseType(DatabaseManager(<<AppConfig(AppConfigDatabases)>>),
                        database_name).value

\* ------------------------------------------------------------ SQL synthesizer
\* re.sub(r'SELECT\s+(.*?)\s+FROM\s+', repl, sql): every non-overlapping
\* "SELECT <lazy group> FROM <something>" is replaced; mode selects repl
FromAfter(sql, i) ==
    {j \in (i + 2) .. (Len(sql) - 1) : Fold(sql[j]) = "FROM"}

Replacement(mode, group, arg) ==
    CASE mode = "count" -> <<"SELECT", "COUNT(*)", "as", "record_count", "FROM">>
      [] mode = "keep" -> <<"SELECT">> \o group \o <<"FROM">>
      [] mode = "limit" -> <<"SELECT">> \o arg \o group \o <<"FROM">>
      [] mode = "rn" ->
            <<"SELECT">> \o group
                \o <<",", "ROW_NUMBER()", "OVER", "(", "ORDER", "BY">> \o arg
                \o <<"ASC", ")", "as", "rn", "FROM">>

RECURSIVE ReSubSelectFrom(_, _, _, _)
ReSubSelectFrom(sql, start, mode, arg) ==
    LET cands == {i \in start .. Len(sql) :
                     Fold(sql[i]) = "SELECT" /\ FromAfter(sql, i) # {}}
    IN  IF cands = {} THEN Tail0(sql, start)
        ELSE LET i == Min(cands)
                 j == Min(FromAfter(sql, i))
             IN  SubSeq(sql, start, i - 1)
                     \o Replacement(mode, SubSeq(sql, i + 1, j - 1), arg)
                     \o ReSubSelectFrom(sql, j + 1, mode, arg)

\* with_pattern = r'(WITH\s+\w+\s+AS\s*\(.*?\))\s*(SELECT.*)' : group 1 and 2
WithClause(sql) ==
    LET m == SinglePatternSearch(sql) IN SubSeq(sql, m.first, m.last)

MainSelect(sql) ==
    LET m == SinglePatternSearch(sql) IN Tail0(sql, m.last + 1)

\* f"SELECT COUNT(*) as record_count FROM ({sql}) as subquery"
StandardCountQuery(sql) ==
    <<"SELECT", "COUNT(*)", "as", "record_count", "FROM", "(">> \o sql
        \o <<")", "as", "subquery">>

_create_with_count_query_unhoisted(sql, database_type) ==
    StandardCountQuery(sql)

_create_with_count_query(sql, database_type) ==
    IF ~_analyze_with_structure(sql).has_with
    THEN StandardCountQuery(sql)
    ELSE IF SinglePatternSearch(sql).found
    THEN WithClause(sql) \o StandardCountQuery(MainSelect(sql))
    ELSE ReSubSelectFrom(sql, 1, "count", <<>>)

StandardHeaderQueryInline(sql, database_type, limit_clause) ==
    IF database_type = "mysql"
    THEN sql \o limit_clause
    ELSE ReSubSelectFrom(sql, 1, "limit", limit_clause)

\* the header probe of a query without WITH
StandardHeaderQuery(sql, database_type, limit_clause) ==
    IF database_type = "mysql"
    THEN <<"SELECT", "*", "FROM", "(">> \o sql \o <<")", "as", "subquery">>
             \o limit_clause
    ELSE <<"SELECT">> \o limit_clause \o <<"*", "FROM", "(">> \o sql
             \o <<")", "as", "subquery">>

_create_with_header_query(sql, database_type, limit_clause) ==
    IF ~_analyze_with_structure(sql).has_with
    THEN StandardHeaderQuery(sql, database_type, limit_clause)
    ELSE IF SinglePatternSearch(sql).found
    THEN WithClause(sql)
             \o StandardHeaderQuery(MainSelect(sql), database_type, limit_clause)
    ELSE IF database_type = "mysql"
    THEN ReSubSelectFrom(sql, 1, "keep", <<>>) \o limit_clause
    ELSE ReSubSelectFrom(sql, 1, "limit", limit_clause)

\* ", ".join([f'{quote}{h}{quote_close}' for h in headers])
RECURSIVE JoinColumns(_, _)
JoinColumns(headers, database_type) ==
    IF headers = <<>> THEN <<>>
    ELSE <<_get_column_quote(database_type), Head(headers),
           _get_column_quote_close(database_type)>>
             \o (IF Len(headers) > 1 THEN <<",">> ELSE <<>>)
             \o JoinColumns(Tail(headers), database_type)

\* WHERE rn > {offset} AND rn <= {offset + batch_size}
BatchWhereOffByOne(offset, batch_size) ==
    <<"WHERE", "rn", ">", NumTok(offset), "AND", "rn", "<=",
      NumTok(offset + batch_size - 1)>>

BatchWhere(offset, batch_size) ==
    <<"WHERE", "rn", ">", NumTok(offset), "AND", "rn", "<=",
      NumTok(offset + batch_size)>>

\* SELECT *, ROW_NUMBER() OVER (ORDER BY {order_column} ASC) as rn
RowNumberSelect(order_column) ==
    <<"SELECT", "*", ",", "ROW_NUMBER()", "OVER", "(", "ORDER", "BY",
      order_column, "ASC", ")", "as", "rn">>

\* the window-function batch form around a body
StandardBatchQuery(sql, select_columns, order_column, offset, batch_size) ==
    <<"SELECT">> \o select_columns \o <<"FROM", "(">>
        \o RowNumberSelect(order_column) \o <<"FROM", "(">> \o sql
        \o <<")", "as", "subquery", ")", "as", "numbered">>
        \o BatchWhere(offset, batch_size)

_create_with_batch_query(sql, database_type, select_columns, order_column, offset, batch_size) ==
    IF ~_analyze_with_structure(sql).has_with
    THEN StandardBatchQuery(sql, select_columns, order_column, offset,
                            batch_size)
    ELSE IF SinglePatternSearch(sql).found
    THEN WithClause(sql)
             \o StandardBatchQuery(MainSelect(sql), select_columns,
                                   order_column, offset, batch_size)
    ELSE <<"SELECT">> \o select_columns \o <<"FROM", "(">>
             \o ReSubSelectFrom(sql, 1, "rn", <<order_column>>)
             \o <<")", "as", "numbered">> \o BatchWhere(offset, batch_size)

SelectColumns(query_config, headers) ==
    JoinColumns(headers, _get_database_type(query_config.database_name))

create_batch_query(query_config, batch_size, offset, headers) ==
    LET database_type == _get_database_type(query_config.database_name)
        adjusted_sql ==
            _adjust_parameter_placeholder(query_config.sql, database_type)
        select_columns == SelectColumns(query_config, headers)
        order_column == query_config.order_by_column
    IN  IF _analyze_with_structure(query_config.sql).has_with
        THEN _create_with_batch_query(adjusted_sql, database_type,
                                      select_columns, order_column, offset,
                                      batch_size)
        ELSE StandardBatchQuery(adjusted_sql, select_columns, order_column,
                                offset, batch_size)

\* the count statement get_record_count executes
CountStatement(query_config) ==
    LET database_type == _get_database_type(query_config.database_name)
        adjusted_sql ==
            _adjust_parameter_placeholder(query_config.sql, database_type)
    IN  IF _analyze_with_structure(query_config.sql).has_with
        THEN _create_with_count_query(adjusted_sql, database_type)
        ELSE StandardCountQuery(adjusted_sql)

\* the header probe get_headers executes
HeaderStatement(query_config) ==
    LET database_type == _get_database_type(query_config.database_name)
        limit_clause == _get_limit_clause(database_type)
        adjusted_sql ==
            _adjust_parameter_placeholder(query_config.sql, database_type)
    IN  IF _analyze_with_structure(query_config.sql).has_with
        THEN _create_with_header_query(adjusted_sql, database_type,
                                       limit_clause)
        ELSE StandardHeaderQuery(adjusted_sql, database_type, limit_clause)

\* ------------------------------------------------------------ inputs
\* declared SQL texts: zero to MaxCtes leading CTEs and a main query
CteNamePool == <<"A", "B", "C", "D">>

CteBodies ==
    { <<"SELECT", "x", "FROM", "T">>,
      <<"SELECT", "x", "FROM", "(", "SELECT", "y", "FROM", "T", ")", "t">>,
      <<"WITH", "N", "AS", "(", "SELECT", "x", "FROM", "T", ")",
        "SELECT", "y", "FROM", "N">> }

MainQueries ==
    { <<"SELECT", "*", "FROM", "A", "WHERE", "ts", ">", ":last_run_time">>,
      <<"select", "x", "from", "A">>,
      <<"(", "SELECT", "x", "FROM", "A", ")">> }

\* "," separates CTEs in SQL; a repeated WITH is text the processor may be given
CteSeparators == {",", "WITH"}

RECURSIVE CteList(_, _, _)
CteList(bodies, k, sep) ==
    IF k = 0 THEN <<>>
    ELSE CteList(bodies, k - 1, sep)
             \o (IF k = 1 THEN <<"WITH">> ELSE <<sep>>)
             \o <<CteNamePool[k], "AS", "(">> \o bodies[k] \o <<")">>

SqlInputs ==
    UNION { { CteList(bodies, k, sep) \o main :
                bodies \in [1 .. k -> CteBodies], sep \in CteSeparators,
                main \in MainQueries } : k \in 0 .. MaxCtes }

HeaderLists == { <<"a">>, <<"a", "b">>, <<"a", "rn">> }

DatabaseNames == {"main_db", "sub_db"}

QueryConfig(sql, database_name, is_incremental) ==
    [name |-> "q", description |-> "d", sql |-> sql,
     database_name |-> database_name,
     timestamp_column |-> IF is_incremental THEN "ts" ELSE None,
     primary_key |-> "id", target_table |-> "t",
     is_incremental |-> is_incremental, order_by_column |-> "id"]

\* ------------------------------------------------------------ date range
Backslash == "<backslash>"

Newline == "<newline>"

\* f"'{text}'"
QuotedLiteral(text) == <<"'", text, "'">>

\* rf"\'{text}\'" in a re.sub replacement: the backslashes stay in the output
EscapedLiteral(text) == <<Backslash, "'", text, Backslash, "'">>

\* systemdate_config: start_date and end_date are <<>> when not configured
SystemdateConfig(enabled, start_date, end_date) ==
    [enabled |-> enabled, start_date |-> start_date, end_date |-> end_date]

\* sql.replace(':last_run_time', literal)
RECURSIVE ReplaceLastRunTime(_, _)
ReplaceLastRunTime(sql, literal) ==
    IF sql = <<>> THEN <<>>
    ELSE (IF Head(sql) = ":last_run_time" THEN literal ELSE <<Head(sql)>>)
             \o ReplaceLastRunTime(Tail(sql), literal)

\* re.sub(r'WHERE\s+(.*)', r'WHERE \1 <clause>', sql, flags=re.IGNORECASE):
\* \s+ takes the line breaks right after WHERE, (.*) the rest of that line
RECURSIVE ReSubWhere(_, _, _)
ReSubWhere(sql, start, clause) ==
    LET cands == {i \in start .. (Len(sql) - 1) : Fold(sql[i]) = "WHERE"}
    IN  IF cands = {} THEN Tail0(sql, start)
        ELSE LET i == Min(cands)
                 texts == {j \in (i + 1) .. Len(sql) : sql[j] # Newline}
                 first == IF texts = {} THEN Len(sql) + 1 ELSE Min(texts)
                 breaks == {j \in first .. Len(sql) : sql[j] = Newline}
                 last == IF breaks = {} THEN Len(sql) ELSE Min(breaks) - 1
             IN  SubSeq(sql, start, i - 1) \o <<"WHERE">>
                     \o SubSeq(sql, first, last) \o clause
                     \o ReSubWhere(sql, last + 1, clause)

StartDateStr(systemdate_config, last_run_time) ==
    IF systemdate_config.start_date # <<>>
    THEN systemdate_config.start_date[1]
    ELSE IF last_run_time # <<>> THEN last_run_time[1]
    ELSE "1900-01-01 00:00:00"

EndDateStr(systemdate_config, now_text) ==
    IF systemdate_config.end_date # <<>>
    THEN systemdate_config.end_date[1]
    ELSE now_text

\* apply_systemdate_range; now_text is datetime.now(JST).strftime(..)
apply_systemdate_range(sql, systemdate_config, last_run_time, now_text) ==
    LET start_date_str == StartDateStr(systemdate_config, last_run_time)
        end_date_str == EndDateStr(systemdate_config, now_text)
    IN  IF ~systemdate_config.enabled THEN sql
        ELSE IF \E i \in 1 .. Len(sql) : Fold(sql[i]) = "WHERE"
        THEN IF \E i \in 1 .. Len(sql) : sql[i] = ":last_run_time"
             THEN ReplaceLastRunTime(sql, QuotedLiteral(start_date_str))
             ELSE ReSubWhere(sql, 1,
                      <<"AND", "SystemDate", "BETWEEN">>
                          \o EscapedLiteral(start_date_str) \o <<"AND">>
                          \o EscapedLiteral(end_date_str))
        ELSE sql \o <<"WHERE", "SystemDate", "BETWEEN">>
                 \o QuotedLiteral(start_date_str) \o <<"AND">>
                 \o QuotedLiteral(end_date_str)

\* QueryConfig(name=.., description=.., sql=.., timestamp_column=..,
\* primary_key=.., target_table=.., is_incremental=.., order_by_column=..):
\* database_name is not passed and takes the constructor's default
CloneQueryConfig(config, default_database_name) ==
    [name |-> config.name, description |-> config.description,
     sql |-> config.sql, database_name |-> default_database_name,
     timestamp_column |-> config.timestamp_column,
     primary_key |-> config.primary_key,
     target_table |-> config.target_table,
     is_incremental |-> config.is_incremental,
     order_by_column |-> config.order_by_column]

\* process_query_with_systemdate_range: the QueryConfig it returns
process_query_with_systemdate_range(config, systemdate_config, last_run_time, now_text, default_database_name) ==
    LET modified_config == CloneQueryConfig(config, default_database_name)
    IN  IF config.is_incremental /\ config.timestamp_column \notin {None, ""}
        THEN [modified_config EXCEPT
                 !.sql = apply_systemdate_range(config.sql, systemdate_config,
                                                last_run_time, now_text)]
        ELSE modified_config

\* ------------------------------------------------------------ date range inputs
RangeSqls ==
    { <<"SELECT", "*", "FROM", "A", "WHERE", "ts", ">", ":last_run_time">>,
      <<"SELECT", "*", "FROM", "A", "WHERE", "x", ">", "y">>,
      <<"SELECT", "*", "FROM", "A">>,
      <<"select", "*", "from", "A", "where", "x", ">", "y", Newline,
        "ORDER", "BY", "x">>,
      <<"SELECT", "*", "FROM", "f", "(", ":last_run_time", ")">>,
      <<"WITH", "A", "AS", "(", "SELECT", "x", "FROM", "T", "WHERE", "x",
        ">", "y", ")", Newline, "SELECT", "*", "FROM", "A", "WHERE", "x",
        ">", "y">> }

SystemdateConfigs ==
    {SystemdateConfig(enabled, start_date, end_date) :
        enabled \in BOOLEAN, start_date \in {<<>>, <<"S">>},
        end_date \in {<<>>, <<"E">>}}

\* last_run_time: <<>> is None
LastRunTimes == {<<>>, <<"L">>}

TimestampColumns == {None, "", "ts"}

\* ------------------------------------------------------------ collaborators
\* csv_processor.format_file_size
FormatFileSize(size_bytes) == <<NumTok(size_bytes), "B">>

\* gcs_manager.upload_batch: the bytes written for an encoded batch
UploadBatchBytes(batch_rows) == Cardinality(batch_rows) + 1

\* the database: the rows of a result of total_rows rows, numbered by
\* ROW_NUMBER(), that the batch statement's filter selects
FetchRows(batch_query, total_rows) ==
    IF Len(batch_query) >= 8 /\ batch_query[Len(batch_query) - 7] = "WHERE"
    THEN {rn \in 1 .. total_rows :
             /\ rn > ParseNum(batch_query[Len(batch_query) - 4])
             /\ rn <= ParseNum(batch_query[Len(batch_query)])}
    ELSE 1 .. total_rows

\* ------------------------------------------------------------ run inputs
MaxRows == 3

\* the catalog's query names, in processing order
QueryNames == <<"q1", "q2">>

\* the result's column names
QueryColumns == <<"a", "b">>

RunSqls ==
    { <<"SELECT", "*", "FROM", "A", "WHERE", "ts", ">", ":last_run_time">>,
      <<"WITH", "A", "AS", "(", "SELECT", "x", "FROM", "T", ")",
        "SELECT", "*", "FROM", "A", "WHERE", "ts", ">", ":last_run_time">> }

ProcessingResult(query_name, batch_count, row_count, total_size_bytes) ==
    [query_name |-> query_name, batch_count |-> batch_count,
     row_count |-> row_count, total_size_bytes |-> total_size_bytes,
     total_size_formatted |-> FormatFileSize(total_size_bytes)]

\* ------------------------------------------------------------ watermark
\* JST = timezone(timedelta(hours=9)): the fixed zone's UTC offset in hours
JST == 9

\* a datetime: wall-clock hours, microseconds, and the UTC offset when aware
Datetime(wall, micro, aware, utcoffset) ==
    [wall |-> wall, micro |-> micro, aware |-> aware, utcoffset |-> utcoffset]

\* datetime.replace(tzinfo=tz)
ReplaceTzinfo(d, tz) == [d EXCEPT !.aware = TRUE, !.utcoffset = tz]

\* aware datetime.astimezone(tz): the same instant on tz's wall clock
Astimezone(d, tz) ==
    [d EXCEPT !.wall = d.wall - d.utcoffset + tz, !.utcoffset = tz]

\* datetime.replace(microsecond=0)
ReplaceMicrosecond(d) == [d EXCEPT !.micro = 0]

\* datetime.fromisoformat: "<hours>" is naive, "<hours> + <offset>" is aware,
\* any other text raises ValueError
fromisoformat(text) ==
    IF Len(text) = 1 /\ IsNum(text[1])
    THEN [raised |-> FALSE, value |-> Datetime(ParseNum(text[1]), 0, FALSE, 0)]
    ELSE IF Len(text) = 3 /\ IsNum(text[1]) /\ text[2] = "+" /\ IsNum(text[3])
    THEN [raised |-> FALSE,
          value |-> Datetime(ParseNum(text[1]), 0, TRUE, ParseNum(text[3]))]
    ELSE [raised |-> TRUE, value |-> Datetime(0, 0, FALSE, 0)]

\* what "SELECT MAX(SystemDate) FROM HistoryMainline" does: it fails, or its
\* scalar is null, a datetime or a string
MaxDateOutcomes ==
    { [kind |-> "fail", value |-> <<>>, text |-> <<>>],
      [kind |-> "null", value |-> <<>>, text |-> <<>>],
      [kind |-> "datetime", value |-> <<Datetime(12, 0, FALSE, 0)>>,
       text |-> <<>>],
      [kind |-> "datetime", value |-> <<Datetime(12, 7, TRUE, 0)>>,
       text |-> <<>>],
      [kind |-> "datetime", value |-> <<Datetime(12, 0, TRUE, JST)>>,
       text |-> <<>>],
      [kind |-> "str", value |-> <<>>, text |-> <<"12">>],
      [kind |-> "str", value |-> <<>>, text |-> <<"12", "+", "0">>],
      [kind |-> "str", value |-> <<>>, text |-> <<"yesterday">>] }

\* datetime.now(JST)
Clock == {Datetime(20, 0, TRUE, JST), Datetime(21, 5, TRUE, JST)}

\* get_max_system_date: <<>> is None
get_max_system_date(max_date_outcome) ==
    CASE max_date_outcome.kind = "fail" -> <<>>
      [] max_date_outcome.kind = "null" -> <<>>
      [] max_date_outcome.kind = "datetime" -> max_date_outcome.value
      [] max_date_outcome.kind = "str" ->
            IF fromisoformat(max_date_outcome.text).raised
            THEN <<>>
            ELSE <<fromisoformat(max_date_outcome.text).value>>

UpdateRunTimeKeepingZone(max_system_date, now) ==
    IF max_system_date # <<>>
    THEN IF ~max_system_date[1].aware
         THEN ReplaceTzinfo(max_system_date[1], JST)
         ELSE max_system_date[1]
    ELSE ReplaceMicrosecond(now)

\* process_all_queries: update_run_time from max_system_date and the clock
UpdateRunTime(max_system_date, now) ==
    IF max_system_date # <<>>
    THEN IF ~max_system_date[1].aware
         THEN ReplaceTzinfo(max_system_date[1], JST)
         ELSE Astimezone(max_system_date[1], JST)
    ELSE ReplaceMicrosecond(now)

\* ------------------------------------------------------------ state
VARIABLES
    query_config,     \* the QueryConfig being processed
    headers,          \* column names of the query's result
    batch_size,       \* settings['batch_size']
    offset,           \* the batch offset
    syn_pc,           \* position of the synthesis run
    analysis,         \* result of _analyze_with_structure
    count_sql,        \* count form
    header_sql,       \* header-probe form
    select_columns,   \* create_batch_query's column projection
    batch_sql,        \* batch form at offset
    next_batch_sql,   \* batch form at offset + batch_size
    queries,          \* queries_to_process
    result_rows,      \* per query: the number of rows its SQL returns
    pc,               \* position of process_all_queries
    query_index,      \* index of the query in the for loop
    record_count,     \* process_query's record_count
    batch_number,     \* _process_batches' batch_number
    processed_rows,   \* _process_batches' processed_rows
    query_total_size, \* _process_batches' query_total_size
    rows,             \* the fetched batch (row numbers)
    issued,           \* batch statements executed for the current query
    uploaded,         \* batches the sink accepted for the current query
    processing_results, \* process_all_queries' processing_results
    raised,           \* exception that left process_all_queries, or "none"
    faults,           \* what the collaborators did to the current query
    outcome,          \* what process_query returned for the current query
    max_date_outcome, \* what the MAX(SystemDate) statement did
    clock,            \* datetime.now(JST) at the end of the run
    update_run_time,  \* the returned watermark: <<>> before the return
    events,           \* gate polls and batch executions of the current query
    fb_pc,            \* position of _get_record_count_with_fallback
    fb_result,        \* its return value: <<>> before it returns, then <<n>>
    fb_raised,        \* an exception left _get_record_count_with_fallback
    fb_statements,    \* statements it executed: text and bound parameters
    fb_history,       \* what the connection did at each of its steps
    database_manager, \* the database manager _get_database_type reads
    database_name,    \* its argument
    dialect_pc,       \* position of the dialect resolution
    dialect_type,     \* its return value
    dialect_raised,   \* an exception left _get_database_type
    systemdate_config, \* the SYSTEMDATE configuration
    last_run_time,    \* the incoming watermark
    now_text,         \* the formatted current time
    range_pc,         \* position of the date-range run
    applied_sql,      \* what apply_systemdate_range returned
    given_config,     \* the QueryConfig as it was when passed in
    returned_config,  \* what process_query_with_systemdate_range returned
    returned_original, \* it returned the object it was given
    statements,       \* statements executed by direct calls, with parameters
    pool              \* connections checked out now, and the most at once

sharedVars == <<query_config, headers, batch_size, offset>>

synVars ==
    <<syn_pc, analysis, count_sql, header_sql, select_columns, batch_sql,
      next_batch_sql>>

runVars ==
    <<queries, result_rows, pc, query_index, record_count, batch_number,
      processed_rows, query_total_size, rows, issued, uploaded,
      processing_results, raised, faults, outcome, max_date_outcome, clock,
      update_run_time, events>>

markVars == <<max_date_outcome, clock, update_run_time>>

fbVars == <<fb_pc, fb_result, fb_raised, fb_statements, fb_history>>

dialectVars ==
    <<database_manager, database_name, dialect_pc, dialect_type,
      dialect_raised>>

rangeVars ==
    <<systemdate_config, last_run_time, now_text, range_pc, applied_sql,
      given_config, returned_config, returned_original>>

stmtVars == <<statements, pool>>

vars == <<sharedVars, synVars, runVars, fbVars, dialectVars, rangeVars, stmtVars>>

NoConnections == [held |-> 0, peak |-> 0]

StmtIdle == statements = <<>> /\ pool = NoConnections

RangeIdle ==
    /\ systemdate_config = SystemdateConfig(FALSE, <<>>, <<>>)
    /\ last_run_time = <<>>
    /\ now_text = "N"
    /\ range_pc = "idle"
    /\ applied_sql = <<>>
    /\ given_config = QueryConfig(<<>>, "main_db", FALSE)
    /\ returned_config = QueryConfig(<<>>, "main_db", FALSE)
    /\ returned_original = FALSE

DialectIdle ==
    /\ database_manager = DatabaseManager(<<AppConfig(AppConfigDatabases)>>)
    /\ database_name = "main_db"
    /\ dialect_pc = "idle"
    /\ dialect_type = None
    /\ dialect_raised = FALSE

FbIdle ==
    /\ fb_pc = "idle"
    /\ fb_result = <<>>
    /\ fb_raised = FALSE
    /\ fb_statements = <<>>
    /\ fb_history = <<>>

SynIdle ==
    /\ syn_pc = "idle"
    /\ analysis = NoAnalysis
    /\ count_sql = <<>>
    /\ header_sql = <<>>
    /\ select_columns = <<>>
    /\ batch_sql = <<>>
    /\ next_batch_sql = <<>>

RunIdle ==
    /\ queries = <<>>
    /\ result_rows = <<>>
    /\ pc = "idle"
    /\ query_index = 0
    /\ record_count = 0
    /\ batch_number = 0
    /\ processed_rows = 0
    /\ query_total_size = 0
    /\ rows = {}
    /\ issued = <<>>
    /\ uploaded = <<>>
    /\ processing_results = <<>>
    /\ raised = "none"
    /\ faults = {}
    /\ outcome = "none"
    /\ max_date_outcome = [kind |-> "none", value |-> <<>>, text |-> <<>>]
    /\ clock = Datetime(0, 0, TRUE, JST)
    /\ update_run_time = <<>>
    /\ events = <<>>

\* ------------------------------------------------------------ synthesis run
\* one query definition taken through the analyzer and the three derivations
InitSynth ==
    /\ query_config \in
           {QueryConfig(sql, db, TRUE) :
               sql \in SqlInputs, db \in DatabaseNames}
    /\ headers \in HeaderLists
    /\ batch_size \in 1 .. MaxBatchSize
    /\ offset \in 0 .. MaxOffset
    /\ syn_pc = "input"
    /\ analysis = NoAnalysis
    /\ count_sql = <<>>
    /\ header_sql = <<>>
    /\ select_columns = <<>>
    /\ batch_sql = <<>>
    /\ next_batch_sql = <<>>
    /\ RunIdle
    /\ FbIdle
    /\ DialectIdle
    /\ RangeIdle
    /\ StmtIdle

AnalyzeWithStructure ==
    /\ syn_pc = "input"
    /\ analysis' = _analyze_with_structure(query_config.sql)
    /\ syn_pc' = (IF AnalyzeCall(query_config.sql).raised
                  THEN "raised" ELSE "analyzed")
    /\ UNCHANGED <<sharedVars, runVars, fbVars, dialectVars, stmtVars, rangeVars, count_sql, header_sql, select_columns,
                   batch_sql, next_batch_sql>>

CreateCountQuery ==
    /\ syn_pc = "analyzed"
    /\ count_sql' = CountStatement(query_config)
    /\ syn_pc' = "counted"
    /\ UNCHANGED <<sharedVars, runVars, fbVars, dialectVars, stmtVars, rangeVars, analysis, header_sql, select_columns,
                   batch_sql, next_batch_sql>>

CreateHeaderQuery ==
    /\ syn_pc = "counted"
    /\ header_sql' = HeaderStatement(query_config)
    /\ syn_pc' = "probed"
    /\ UNCHANGED <<sharedVars, runVars, fbVars, dialectVars, stmtVars, rangeVars, analysis, count_sql, select_columns,
                   batch_sql, next_batch_sql>>

CreateBatchQuery ==
    /\ syn_pc = "probed"
    /\ select_columns' = SelectColumns(query_config, headers)
    /\ batch_sql' = create_batch_query(query_config, batch_size, offset, headers)
    /\ syn_pc' = "batched"
    /\ UNCHANGED <<sharedVars, runVars, fbVars, dialectVars, stmtVars, rangeVars, analysis, count_sql, header_sql,
                   next_batch_sql>>

CreateNextBatchQuery ==
    /\ syn_pc = "batched"
    /\ next_batch_sql' =
           create_batch_query(query_config, batch_size, offset + batch_size,
                              headers)
    /\ syn_pc' = "done"
    /\ UNCHANGED <<sharedVars, runVars, fbVars, dialectVars, stmtVars, rangeVars, analysis, count_sql, header_sql,
                   select_columns, batch_sql>>

NextSynth ==
    \/ AnalyzeWithStructure
    \/ CreateCountQuery
    \/ CreateHeaderQuery
    \/ CreateBatchQuery
    \/ CreateNextBatchQuery

SpecSynth == InitSynth /\ [][NextSynth]_vars

\* ------------------------------------------------------------ analyzer run
\* texts the analyzer may be given that are not well-formed statements
MalformedSqls ==
    { <<>>,
      <<"WITH", "A">>,
      <<"WITH", "A", "AS", "(", "SELECT", "x", "FROM", "T">>,
      <<"WITH", "A", "AS", "(", "WITH", "B", "AS", "(">>,
      <<"WITH", "A", "AS", "(", "SELECT", "x", ")", "UPDATE", "T">>,
      <<"WITH", "A", "AS", "(", "SELECT", "x", ")", ",", "B", "AS", "(",
        "SELECT", "y", ")">>,
      <<"with", "a", "as", "(", "select", "1", ")", "select", "*", "from",
        "a">>,
      <<"SELECT", "x", "FROM", "T", "WITH", "(", "NOLOCK", ")">> }

InitAnalyze ==
    /\ query_config \in
           {QueryConfig(sql, db, inc) :
               sql \in SqlInputs \cup MalformedSqls, db \in DatabaseNames,
               inc \in BOOLEAN}
    /\ headers = <<>>
    /\ batch_size = 1
    /\ offset = 0
    /\ syn_pc = "input"
    /\ analysis = NoAnalysis
    /\ count_sql = <<>>
    /\ header_sql = <<>>
    /\ select_columns = <<>>
    /\ batch_sql = <<>>
    /\ next_batch_sql = <<>>
    /\ RunIdle
    /\ FbIdle
    /\ DialectIdle
    /\ RangeIdle
    /\ StmtIdle

NextAnalyze == AnalyzeWithStructure

SpecAnalyze == InitAnalyze /\ [][NextAnalyze]_vars

\* engine.connect(): one more connection is checked out of the pool
Acquire(connections) ==
    [held |-> connections.held + 1,
     peak |-> IF connections.held + 1 > connections.peak
              THEN connections.held + 1 ELSE connections.peak]

\* Connection.__exit__: the connection goes back to the pool
Release(connections) == [connections EXCEPT !.held = @ - 1]

WithConnectionClosedOnSuccess(connections, body_raises) ==
    IF body_raises THEN Acquire(connections)
    ELSE Release(Acquire(connections))

\* with engine.connect() as connection: __exit__ runs when the body returns
\* and when it raises
WithConnection(connections, body_raises) == Release(Acquire(connections))

\* ------------------------------------------------------------ query processor
\* what the connection does with the count statement: it fails, or it
\* returns a scalar (<<>> is a null scalar)
CountOutcomes(total_rows) ==
    { [kind |-> "fail", scalar |-> <<>>],
      [kind |-> "ok", scalar |-> <<>>],
      [kind |-> "ok", scalar |-> <<total_rows>>] }

get_record_count_raising_on_null(count_outcome) ==
    IF count_outcome.kind = "fail" \/ count_outcome.scalar = <<>>
    THEN [raised |-> TRUE, value |-> 0]
    ELSE [raised |-> FALSE, value |-> count_outcome.scalar[1]]

\* get_record_count: re-raises a failure, 0 for a null scalar
get_record_count(count_outcome) ==
    IF count_outcome.kind = "fail"
    THEN [raised |-> TRUE, value |-> 0]
    ELSE [raised |-> FALSE,
          value |-> IF count_outcome.scalar # <<>>
                    THEN count_outcome.scalar[1]
                    ELSE 0]

\* ------------------------------------------------------------ batch orchestrator
ZeroRowResultWithoutSize(query_name) ==
    [ProcessingResult(query_name, 0, 0, 0) EXCEPT !.total_size_formatted = <<>>]

\* the result process_query returns when record_count == 0
ZeroRowResult(query_name) == ProcessingResult(query_name, 0, 0, 0)

AdvanceOffsetByOne(current_offset, size) == current_offset + 1

\* offset += batch_size
AdvanceOffset(current_offset, size) == current_offset + size

InitRun ==
    /\ \E sql \in RunSqls, db \in DatabaseNames, inc \in BOOLEAN :
           /\ queries = [i \in 1 .. Len(QueryNames) |->
                            [QueryConfig(sql, db, inc) EXCEPT
                                !.name = QueryNames[i]]]
           /\ query_config = QueryConfig(sql, db, inc)
    /\ result_rows \in [1 .. Len(QueryNames) -> 0 .. MaxRows]
    /\ batch_size \in 1 .. MaxBatchSize
    /\ headers = <<>>
    /\ offset = 0
    /\ pc = "next_query"
    /\ query_index = 0
    /\ record_count = 0
    /\ batch_number = 0
    /\ processed_rows = 0
    /\ query_total_size = 0
    /\ rows = {}
    /\ issued = <<>>
    /\ uploaded = <<>>
    /\ processing_results = <<>>
    /\ raised = "none"
    /\ faults = {}
    /\ outcome = "none"
    /\ max_date_outcome = [kind |-> "none", value |-> <<>>, text |-> <<>>]
    /\ clock = Datetime(0, 0, TRUE, JST)
    /\ update_run_time = <<>>
    /\ events = <<>>
    /\ SynIdle
    /\ FbIdle
    /\ DialectIdle
    /\ RangeIdle
    /\ StmtIdle

\* for query_config in queries_to_process: process_query(...) is entered;
\* get_systemdate_config() returns {} (range filtering disabled)
StartQuery ==
    /\ pc = "next_query"
    /\ query_index < Len(queries)
    /\ query_index' = query_index + 1
    /\ query_config' = queries[query_index + 1]
    /\ pc' = "count"
    /\ record_count' = 0
    /\ headers' = <<>>
    /\ offset' = 0
    /\ batch_number' = 0
    /\ processed_rows' = 0
    /\ query_total_size' = 0
    /\ rows' = {}
    /\ issued' = <<>>
    /\ uploaded' = <<>>
    /\ faults' = {}
    /\ outcome' = "running"
    /\ UNCHANGED <<batch_size, synVars, fbVars, dialectVars, stmtVars, rangeVars, markVars, queries, result_rows,
                   processing_results, raised>>
    /\ events' = <<>>

\* process_query: get_record_count, then the zero-row result
GetRecordCount ==
    /\ pc = "count"
    /\ \E count_outcome \in CountOutcomes(result_rows[query_index]) :
           LET r == get_record_count(count_outcome)
           IN  /\ faults' = faults
                      \cup (IF count_outcome.kind = "fail"
                            THEN {"count_fail"} ELSE {})
                      \cup (IF count_outcome.kind = "ok"
                               /\ count_outcome.scalar = <<>>
                            THEN {"count_null"} ELSE {})
               /\ IF r.raised
                  THEN /\ raised' = "Exception"
                       /\ pc' = "failed"
                       /\ outcome' = "raised"
                       /\ UNCHANGED <<record_count, processing_results>>
                  ELSE IF r.value = 0
                  THEN /\ record_count' = 0
                       /\ processing_results' =
                              Append(processing_results,
                                     ZeroRowResult(query_config.name))
                       /\ outcome' = "result"
                       /\ pc' = "next_query"
                       /\ UNCHANGED raised
                  ELSE /\ record_count' = r.value
                       /\ pc' = "headers"
                       /\ UNCHANGED <<processing_results, outcome, raised>>
    /\ pool' = WithConnection(pool, pc' = "failed")
    /\ UNCHANGED <<sharedVars, synVars, fbVars, dialectVars, statements, rangeVars, markVars, events, queries, result_rows, query_index,
                   batch_number, processed_rows, query_total_size, rows,
                   issued, uploaded>>

\* process_query: get_headers, then _process_batches is entered
GetHeaders ==
    /\ pc = "headers"
    /\ \E header_outcome \in {"fail", "empty", "ok"} :
           /\ faults' = faults
                  \cup (IF header_outcome = "fail" THEN {"headers_fail"}
                        ELSE IF header_outcome = "empty"
                        THEN {"headers_empty"} ELSE {})
           /\ CASE header_outcome = "fail" ->
                     /\ raised' = "Exception"
                     /\ pc' = "failed"
                     /\ outcome' = "raised"
                     /\ UNCHANGED headers
                [] header_outcome = "empty" ->
                     /\ headers' = <<>>
                     /\ outcome' = "skipped"
                     /\ pc' = "next_query"
                     /\ UNCHANGED raised
                [] header_outcome = "ok" ->
                     /\ headers' = QueryColumns
                     /\ pc' = "gate"
                     /\ UNCHANGED <<raised, outcome>>
    /\ pool' = WithConnection(pool, pc' = "failed")
    /\ offset' = 0
    /\ batch_number' = 0
    /\ processed_rows' = 0
    /\ query_total_size' = 0
    /\ UNCHANGED <<query_config, batch_size, synVars, fbVars, dialectVars, statements, rangeVars, markVars, events, queries, result_rows,
                   query_index, record_count, rows, issued, uploaded,
                   processing_results>>

CheckExecutionApplyBreaking ==
    /\ pc = "gate"
    /\ \E allowed \in BOOLEAN :
           IF allowed
           THEN /\ pc' = "fetch"
                /\ events' = Append(events, "gate_true")
                /\ UNCHANGED <<raised, faults, outcome>>
           ELSE /\ pc' = "return"
                /\ events' = Append(events, "gate_false")
                /\ faults' = faults \cup {"gate_denied"}
                /\ UNCHANGED <<raised, outcome>>
    /\ UNCHANGED <<sharedVars, synVars, fbVars, dialectVars, stmtVars, rangeVars, markVars, queries, result_rows,
                   query_index, record_count, batch_number, processed_rows,
                   query_total_size, rows, issued, uploaded,
                   processing_results>>

\* while True: if not check_execution_apply(): raise CsvGenerationException
CheckExecutionApply ==
    /\ pc = "gate"
    /\ \E allowed \in BOOLEAN :
           IF allowed
           THEN /\ pc' = "fetch"
                /\ events' = Append(events, "gate_true")
                /\ UNCHANGED <<raised, faults, outcome>>
           ELSE /\ raised' = "CsvGenerationException"
                /\ pc' = "failed"
                /\ events' = Append(events, "gate_false")
                /\ faults' = faults \cup {"gate_denied"}
                /\ outcome' = "raised"
    /\ UNCHANGED <<sharedVars, synVars, fbVars, dialectVars, stmtVars, rangeVars, markVars, queries, result_rows,
                   query_index, record_count, batch_number, processed_rows,
                   query_total_size, rows, issued, uploaded,
                   processing_results>>

\* except CsvGenerationException: raise / except Exception: break
BatchExceptionHandler(exception) ==
    IF exception = "CsvGenerationException" THEN "raise" ELSE "break"

\* create_batch_query, execute_batch, the empty-batch break, batch_number += 1
ExecuteBatch ==
    /\ pc = "fetch"
    /\ LET batch_query ==
               create_batch_query(query_config, batch_size, offset, headers)
           fetched == FetchRows(batch_query, result_rows[query_index])
       IN  /\ issued' = Append(issued, batch_query)
           /\ \E execute_outcome \in {"Exception", "ok"} :
                  /\ pool' = WithConnection(pool, execute_outcome # "ok")
                  /\ IF execute_outcome # "ok"
                     THEN /\ faults' = faults \cup {"execute_fail"}
                          /\ IF BatchExceptionHandler(execute_outcome) = "raise"
                             THEN /\ raised' = execute_outcome
                                  /\ pc' = "failed"
                                  /\ outcome' = "raised"
                             ELSE /\ pc' = "return"
                                  /\ UNCHANGED <<raised, outcome>>
                          /\ UNCHANGED <<rows, batch_number>>
                     ELSE IF fetched = {}
                     THEN /\ pc' = "return"
                          /\ UNCHANGED <<rows, batch_number, faults, raised,
                                         outcome>>
                     ELSE /\ rows' = fetched
                          /\ batch_number' = batch_number + 1
                          /\ pc' = "upload"
                          /\ UNCHANGED <<faults, raised, outcome>>
    /\ events' = Append(events, "execute")
    /\ UNCHANGED <<sharedVars, synVars, fbVars, dialectVars, statements, rangeVars, markVars, queries, result_rows,
                   query_index, record_count, processed_rows,
                   query_total_size, uploaded, processing_results>>

\* create_csv_data, upload_batch, the totals, offset += batch_size
UploadBatch ==
    /\ pc = "upload"
    /\ \E upload_outcome \in {"Exception", "CsvGenerationException", "ok"} :
           IF upload_outcome = "ok"
           THEN /\ uploaded' = Append(uploaded, rows)
                /\ query_total_size' =
                       query_total_size + UploadBatchBytes(rows)
                /\ processed_rows' = processed_rows + Cardinality(rows)
                /\ offset' = AdvanceOffset(offset, batch_size)
                /\ pc' = "gate"
                /\ UNCHANGED <<faults, raised, outcome>>
           ELSE /\ faults' = faults
                       \cup (IF upload_outcome = "CsvGenerationException"
                             THEN {"csv_exception"} ELSE {"upload_fail"})
                /\ IF BatchExceptionHandler(upload_outcome) = "raise"
                   THEN /\ raised' = upload_outcome
                        /\ pc' = "failed"
                        /\ outcome' = "raised"
                   ELSE /\ pc' = "return"
                        /\ UNCHANGED <<raised, outcome>>
                /\ UNCHANGED <<offset, processed_rows, query_total_size,
                               uploaded>>
    /\ rows' = {}
    /\ UNCHANGED <<query_config, headers, batch_size, synVars, fbVars, dialectVars, stmtVars, rangeVars, markVars,
                   events, queries, result_rows, query_index, record_count,
                   batch_number, issued, processing_results>>

ReturnResultCountingAttempts ==
    /\ pc = "return"
    /\ processing_results' =
           Append(processing_results,
                  ProcessingResult(query_config.name, Len(issued),
                                   processed_rows, query_total_size))
    /\ outcome' = "result"
    /\ pc' = "next_query"
    /\ UNCHANGED <<sharedVars, synVars, fbVars, dialectVars, stmtVars, rangeVars, markVars, events, queries, result_rows,
                   query_index, record_count, batch_number, processed_rows,
                   query_total_size, rows, issued, uploaded, raised, faults>>

\* after the loop: return ProcessingResult(...); process_all_queries appends it
ReturnResult ==
    /\ pc = "return"
    /\ processing_results' =
           Append(processing_results,
                  ProcessingResult(query_config.name, batch_number,
                                   processed_rows, query_total_size))
    /\ outcome' = "result"
    /\ pc' = "next_query"
    /\ UNCHANGED <<sharedVars, synVars, fbVars, dialectVars, stmtVars, rangeVars, markVars, events, queries, result_rows, query_index,
                   record_count, batch_number, processed_rows,
                   query_total_size, rows, issued, uploaded, raised, faults>>

\* the for loop is exhausted: get_max_system_date("main_db") and the watermark
FinishRun ==
    /\ pc = "next_query"
    /\ query_index = Len(queries)
    /\ \E scalar_outcome \in MaxDateOutcomes, now \in Clock :
           /\ max_date_outcome' = scalar_outcome
           /\ pool' = WithConnection(pool, scalar_outcome.kind = "fail")
           /\ clock' = now
           /\ update_run_time' =
                  <<UpdateRunTime(get_max_system_date(scalar_outcome), now)>>
    /\ pc' = "done"
    /\ UNCHANGED <<sharedVars, synVars, fbVars, dialectVars, statements, rangeVars, events, queries, result_rows, query_index,
                   record_count, batch_number, processed_rows,
                   query_total_size, rows, issued, uploaded,
                   processing_results, raised, faults, outcome>>

Next ==
    \/ StartQuery
    \/ GetRecordCount
    \/ GetHeaders
    \/ CheckExecutionApply
    \/ ExecuteBatch
    \/ UploadBatch
    \/ ReturnResult
    \/ FinishRun

Init == InitRun

Spec == Init /\ [][Next]_vars

\* ------------------------------------------------------------ fallback count
\* the parameters a statement is executed with
BindsLastRunTime(config) ==
    config.is_incremental /\ config.timestamp_column # None

\* the 1-row existence probe
FallbackTestSql(config) ==
    LET database_type == _get_database_type(config.database_name)
        limit_clause == _get_limit_clause(database_type)
        adjusted_sql == _adjust_parameter_placeholder(config.sql, database_type)
    IN  IF _analyze_with_structure(config.sql).has_with
        THEN _create_with_header_query(adjusted_sql, database_type,
                                       limit_clause)
        ELSE StandardHeaderQuery(adjusted_sql, database_type, limit_clause)

\* the structural count
FallbackCountSql(config) ==
    LET database_type == _get_database_type(config.database_name)
    IN  _create_with_count_query(
            _adjust_parameter_placeholder(config.sql, database_type),
            database_type)

\* the widened probe
FallbackTestCountSql(config) ==
    LET database_type == _get_database_type(config.database_name)
        adjusted_sql == _adjust_parameter_placeholder(config.sql, database_type)
    IN  IF _analyze_with_structure(config.sql).has_with
        THEN _create_with_header_query(adjusted_sql, database_type,
                                       <<"TOP", "1000">>)
        ELSE <<"SELECT", "TOP", "1000", "*", "FROM", "(">> \o adjusted_sql
                 \o <<")", "as", "subquery">>

Executed(sql, config) == [sql |-> sql, bound |-> BindsLastRunTime(config)]

FallbackHandlerLoose(step) ==
    CASE step \in {"connect", "probe"} -> "propagate"
      [] step = "count" -> "wide_probe"
      [] step \in {"wide_probe", "recount"} -> "return0"

\* where an exception raised at a step is caught: the outer try returns 0,
\* the try around the first count falls through to the widened probe, the
\* try around the widened probe and the retried count falls through to the
\* sentinel
FallbackHandler(step) ==
    CASE step \in {"connect", "probe"} -> "return0"
      [] step = "count" -> "wide_probe"
      [] step \in {"wide_probe", "recount"} -> "sentinel"

\* control after an exception at step
FallbackCatch(step) ==
    LET target == FallbackHandler(step)
    IN  /\ fb_pc' = (IF target = "wide_probe" THEN "wide_probe" ELSE "returned")
        /\ fb_result' = (CASE target = "return0" -> <<0>>
                           [] target = "sentinel" -> <<1>>
                           [] OTHER -> <<>>)
        /\ fb_raised' = (target = "propagate")

InitFallback ==
    /\ query_config \in
           {QueryConfig(sql, db, inc) :
               sql \in RunSqls, db \in DatabaseNames, inc \in BOOLEAN}
    /\ result_rows \in [1 .. 1 -> 0 .. MaxRows]
    /\ headers = <<>>
    /\ batch_size = 1
    /\ offset = 0
    /\ queries = <<>>
    /\ pc = "idle"
    /\ query_index = 0
    /\ record_count = 0
    /\ batch_number = 0
    /\ processed_rows = 0
    /\ query_total_size = 0
    /\ rows = {}
    /\ issued = <<>>
    /\ uploaded = <<>>
    /\ processing_results = <<>>
    /\ raised = "none"
    /\ faults = {}
    /\ outcome = "none"
    /\ max_date_outcome = [kind |-> "none", value |-> <<>>, text |-> <<>>]
    /\ clock = Datetime(0, 0, TRUE, JST)
    /\ update_run_time = <<>>
    /\ events = <<>>
    /\ SynIdle
    /\ DialectIdle
    /\ RangeIdle
    /\ StmtIdle
    /\ fb_pc = "connect"
    /\ fb_result = <<>>
    /\ fb_raised = FALSE
    /\ fb_statements = <<>>
    /\ fb_history = <<>>

\* get_engine and engine.connect()
FbConnect ==
    /\ fb_pc = "connect"
    /\ \E connect_outcome \in {"fail", "ok"} :
           /\ fb_history' = Append(fb_history, <<"connect", connect_outcome>>)
           /\ IF connect_outcome = "fail"
              THEN FallbackCatch("connect")
              ELSE /\ fb_pc' = "probe"
                   /\ UNCHANGED <<fb_result, fb_raised>>
    /\ pool' = (IF fb_pc' = "probe" THEN Acquire(pool) ELSE pool)
    /\ UNCHANGED <<sharedVars, synVars, runVars, dialectVars, rangeVars, statements, fb_statements>>

\* the 1-row probe: no row returns 0
FbProbe ==
    /\ fb_pc = "probe"
    /\ fb_statements' =
           Append(fb_statements,
                  Executed(FallbackTestSql(query_config), query_config))
    /\ \E probe_outcome \in {"fail", "no_row", "row"} :
           /\ fb_history' = Append(fb_history, <<"probe", probe_outcome>>)
           /\ CASE probe_outcome = "fail" -> FallbackCatch("probe")
                [] probe_outcome = "no_row" ->
                     /\ fb_pc' = "returned"
                     /\ fb_result' = <<0>>
                     /\ UNCHANGED fb_raised
                [] probe_outcome = "row" ->
                     /\ fb_pc' = "count"
                     /\ UNCHANGED <<fb_result, fb_raised>>
    /\ pool' = (IF fb_pc' = "returned" THEN Release(pool) ELSE pool)
    /\ UNCHANGED <<sharedVars, synVars, runVars, dialectVars, statements, rangeVars>>

\* method 1: the structural count; a non-null scalar is returned
FbCount ==
    /\ fb_pc = "count"
    /\ fb_statements' =
           Append(fb_statements,
                  Executed(FallbackCountSql(query_config), query_config))
    /\ \E count_outcome \in CountOutcomes(result_rows[1]) :
           /\ fb_history' =
                  Append(fb_history,
                         <<"count",
                           IF count_outcome.kind = "fail" THEN "fail"
                           ELSE IF count_outcome.scalar = <<>> THEN "null"
                           ELSE "value">>)
           /\ IF count_outcome.kind = "fail"
              THEN FallbackCatch("count")
              ELSE IF count_outcome.scalar # <<>>
              THEN /\ fb_pc' = "returned"
                   /\ fb_result' = count_outcome.scalar
                   /\ UNCHANGED fb_raised
              ELSE /\ fb_pc' = "wide_probe"
                   /\ UNCHANGED <<fb_result, fb_raised>>
    /\ pool' = (IF fb_pc' = "returned" THEN Release(pool) ELSE pool)
    /\ UNCHANGED <<sharedVars, synVars, runVars, dialectVars, statements, rangeVars>>

\* method 2: the widened probe; no rows leaves the sentinel
FbWideProbe ==
    /\ fb_pc = "wide_probe"
    /\ fb_statements' =
           Append(fb_statements,
                  Executed(FallbackTestCountSql(query_config), query_config))
    /\ \E probe_outcome \in {"fail", "no_row", "row"} :
           /\ fb_history' = Append(fb_history, <<"wide_probe", probe_outcome>>)
           /\ CASE probe_outcome = "fail" -> FallbackCatch("wide_probe")
                [] probe_outcome = "no_row" ->
                     /\ fb_pc' = "returned"
                     /\ fb_result' = <<1>>
                     /\ UNCHANGED fb_raised
                [] probe_outcome = "row" ->
                     /\ fb_pc' = "recount"
                     /\ UNCHANGED <<fb_result, fb_raised>>
    /\ pool' = (IF fb_pc' = "returned" THEN Release(pool) ELSE pool)
    /\ UNCHANGED <<sharedVars, synVars, runVars, dialectVars, statements, rangeVars>>

\* method 2: the retried structural count; null leaves the sentinel
FbRecount ==
    /\ fb_pc = "recount"
    /\ fb_statements' =
           Append(fb_statements,
                  Executed(FallbackCountSql(query_config), query_config))
    /\ \E count_outcome \in CountOutcomes(result_rows[1]) :
           /\ fb_history' =
                  Append(fb_history,
                         <<"recount",
                           IF count_outcome.kind = "fail" THEN "fail"
                           ELSE IF count_outcome.scalar = <<>> THEN "null"
                           ELSE "value">>)
           /\ IF count_outcome.kind = "fail"
              THEN FallbackCatch("recount")
              ELSE /\ fb_pc' = "returned"
                   /\ fb_result' = (IF count_outcome.scalar # <<>>
                                    THEN count_outcome.scalar
                                    ELSE <<1>>)
                   /\ UNCHANGED fb_raised
    /\ pool' = (IF fb_pc' = "returned" THEN Release(pool) ELSE pool)
    /\ UNCHANGED <<sharedVars, synVars, runVars, dialectVars, statements, rangeVars>>

NextFallback ==
    \/ FbConnect
    \/ FbProbe
    \/ FbCount
    \/ FbWideProbe
    \/ FbRecount

SpecFallback == InitFallback /\ [][NextFallback]_vars

\* ------------------------------------------------------------ direct calls
\* the parameters get_record_count passes to connection.execute
RecordCountParams(config) ==
    IF config.is_incremental /\ config.timestamp_column # None
    THEN {"last_run_time"} ELSE {}

\* the parameters get_headers passes to connection.execute
HeaderParams(config) ==
    IF config.is_incremental /\ config.timestamp_column # None
    THEN {"last_run_time"} ELSE {}

BatchParamsWhenIncremental(config) ==
    IF config.is_incremental THEN {"last_run_time"} ELSE {}

\* params of execute_batch: None (no parameters) unless incremental with a
\* timestamp column
BatchParams(config) ==
    IF config.is_incremental /\ config.timestamp_column # None
    THEN {"last_run_time"} ELSE {}

\* query definitions whose is_incremental and timestamp_column vary freely
BindingConfigs ==
    {[QueryConfig(sql, db, inc) EXCEPT !.timestamp_column = column] :
        sql \in RunSqls, db \in DatabaseNames, inc \in BOOLEAN,
        column \in {None, "", "ts"}}

Called(call) == \E i \in 1 .. Len(statements) : statements[i].call = call

InitBinding ==
    /\ query_config \in BindingConfigs
    /\ result_rows \in [1 .. 1 -> 0 .. MaxRows]
    /\ headers = <<>>
    /\ batch_size = 1
    /\ offset = 0
    /\ queries = <<>>
    /\ pc = "idle"
    /\ query_index = 0
    /\ record_count = 0
    /\ batch_number = 0
    /\ processed_rows = 0
    /\ query_total_size = 0
    /\ rows = {}
    /\ issued = <<>>
    /\ uploaded = <<>>
    /\ processing_results = <<>>
    /\ raised = "none"
    /\ faults = {}
    /\ outcome = "none"
    /\ max_date_outcome = [kind |-> "none", value |-> <<>>, text |-> <<>>]
    /\ clock = Datetime(0, 0, TRUE, JST)
    /\ update_run_time = <<>>
    /\ events = <<>>
    /\ SynIdle
    /\ DialectIdle
    /\ RangeIdle
    /\ statements = <<>>
    /\ pool = NoConnections
    /\ fb_pc = "connect"
    /\ fb_result = <<>>
    /\ fb_raised = FALSE
    /\ fb_statements = <<>>
    /\ fb_history = <<>>

\* get_record_count: the count statement goes to connection.execute
CallGetRecordCount ==
    /\ ~Called("get_record_count")
    /\ statements' =
           Append(statements,
                  [call |-> "get_record_count",
                   sql |-> CountStatement(query_config),
                   params |-> RecordCountParams(query_config)])
    /\ \E body_raises \in BOOLEAN :
           pool' = WithConnection(pool, body_raises)
    /\ UNCHANGED <<sharedVars, synVars, runVars, fbVars, dialectVars, rangeVars>>

\* get_headers: the header probe goes to connection.execute
CallGetHeaders ==
    /\ ~Called("get_headers")
    /\ statements' =
           Append(statements,
                  [call |-> "get_headers",
                   sql |-> HeaderStatement(query_config),
                   params |-> HeaderParams(query_config)])
    /\ \E body_raises \in BOOLEAN :
           pool' = WithConnection(pool, body_raises)
    /\ UNCHANGED <<sharedVars, synVars, runVars, fbVars, dialectVars, rangeVars>>

\* execute_batch on the statement create_batch_query built
CallExecuteBatch ==
    /\ ~Called("execute_batch")
    /\ statements' =
           Append(statements,
                  [call |-> "execute_batch",
                   sql |-> create_batch_query(query_config, batch_size,
                                              offset, QueryColumns),
                   params |-> BatchParams(query_config)])
    /\ \E body_raises \in BOOLEAN :
           pool' = WithConnection(pool, body_raises)
    /\ UNCHANGED <<sharedVars, synVars, runVars, fbVars, dialectVars, rangeVars>>

NextBinding ==
    \/ CallGetRecordCount
    \/ CallGetHeaders
    \/ CallExecuteBatch
    \/ FbConnect
    \/ FbProbe
    \/ FbCount
    \/ FbWideProbe
    \/ FbRecount

SpecBinding == InitBinding /\ [][NextBinding]_vars

\* ------------------------------------------------------------ dialect resolution
\* what db_config.type can be
TypeFields == {NoTypeAttribute, None, "MSSQL", "MySQL", "mysql", "Oracle"}

\* app_config.databases: some of the names, each with a type field
DatabasesConfigs ==
    UNION { [names -> TypeFields] : names \in SUBSET {"main_db", "sub_db"} }

DatabaseManagers ==
    {DatabaseManager(<<>>)}
        \cup {DatabaseManager(<<AppConfig(databases)>>) :
                 databases \in DatabasesConfigs}

InitDialect ==
    /\ database_manager \in DatabaseManagers
    /\ database_name \in {"main_db", "sub_db", "other_db"}
    /\ dialect_pc = "input"
    /\ dialect_type = None
    /\ dialect_raised = FALSE
    /\ query_config = QueryConfig(<<>>, database_name, FALSE)
    /\ headers = <<>>
    /\ batch_size = 1
    /\ offset = 0
    /\ SynIdle
    /\ RunIdle
    /\ FbIdle
    /\ RangeIdle
    /\ StmtIdle

GetDatabaseType ==
    /\ dialect_pc = "input"
    /\ LET r == ResolveDatabaseType(database_manager, database_name)
       IN  /\ dialect_raised' = r.raised
           /\ dialect_type' = r.value
    /\ dialect_pc' = "returned"
    /\ UNCHANGED <<sharedVars, synVars, runVars, fbVars, rangeVars, stmtVars,
                   database_manager, database_name>>

NextDialect == GetDatabaseType

SpecDialect == InitDialect /\ [][NextDialect]_vars

\* ------------------------------------------------------------ date-range run
InitRange ==
    /\ \E sql \in RangeSqls, db \in DatabaseNames, inc \in BOOLEAN,
          column \in TimestampColumns :
           query_config =
               [QueryConfig(sql, db, inc) EXCEPT !.timestamp_column = column]
    /\ given_config = query_config
    /\ systemdate_config \in SystemdateConfigs
    /\ last_run_time \in LastRunTimes
    /\ now_text = "N"
    /\ range_pc = "input"
    /\ applied_sql = <<>>
    /\ returned_config = QueryConfig(<<>>, "main_db", FALSE)
    /\ returned_original = FALSE
    /\ headers = <<>>
    /\ batch_size = 1
    /\ offset = 0
    /\ SynIdle
    /\ RunIdle
    /\ FbIdle
    /\ DialectIdle
    /\ StmtIdle

\* apply_systemdate_range(sql, systemdate_config, last_run_time)
ApplySystemdateRange ==
    /\ range_pc = "input"
    /\ applied_sql' =
           apply_systemdate_range(query_config.sql, systemdate_config,
                                  last_run_time, now_text)
    /\ range_pc' = "applied"
    /\ UNCHANGED <<sharedVars, synVars, runVars, fbVars, dialectVars, stmtVars,
                   systemdate_config, last_run_time, now_text, given_config,
                   returned_config, returned_original>>

\* process_query_with_systemdate_range(query_config, systemdate_config,
\* last_run_time): the constructor raises (the except clause returns the
\* argument) or builds the copy with some default database_name
ProcessQueryWithSystemdateRange ==
    /\ range_pc = "applied"
    /\ \E constructor_outcome \in {"TypeError"} \cup DatabaseNames :
           IF constructor_outcome = "TypeError"
           THEN /\ returned_config' = query_config
                /\ returned_original' = TRUE
           ELSE /\ returned_config' =
                       process_query_with_systemdate_range(
                           query_config, systemdate_config, last_run_time,
                           now_text, constructor_outcome)
                /\ returned_original' = FALSE
    /\ range_pc' = "returned"
    /\ UNCHANGED <<sharedVars, synVars, runVars, fbVars, dialectVars, stmtVars,
                   systemdate_config, last_run_time, now_text, applied_sql,
                   given_config>>

NextRange ==
    \/ ApplySystemdateRange
    \/ ProcessQueryWithSystemdateRange

SpecRange == InitRange /\ [][NextRange]_vars

\* ============================================================ properties
\* ------------------------------------------------------------ reading SQL
\* the rows a statement ending in "WHERE rn > lo AND rn <= hi" selects from
\* a result numbered 1, 2, ... by ROW_NUMBER()
HasRnFilter(stmt) ==
    LET n == Len(stmt)
    IN  /\ n >= 8
        /\ SubSeq(stmt, n - 7, n - 5) = <<"WHERE", "rn", ">">>
        /\ IsNum(stmt[n - 4])
        /\ SubSeq(stmt, n - 3, n - 1) = <<"AND", "rn", "<=">>
        /\ IsNum(stmt[n])

RnLow(stmt) == ParseNum(stmt[Len(stmt) - 4])
RnHigh(stmt) == ParseNum(stmt[Len(stmt)])

SelectedRowNumbers(stmt) ==
    {rn \in NumRange : rn > RnLow(stmt) /\ rn <= RnHigh(stmt)}

\* text occurs in stmt as the whole content of a parenthesised subquery
WrapsVerbatim(stmt, text) ==
    \E i \in 1 .. Len(stmt) :
        /\ i + Len(text) + 1 <= Len(stmt)
        /\ SubSeq(stmt, i, i + Len(text) + 1) = <<"(">> \o text \o <<")">>

\* a parenthesis-aware reading of "WITH n1 AS ( .. ) , n2 AS ( .. ) SELECT .."
RECURSIVE MatchingClose(_, _, _)
MatchingClose(sql, p, depth) ==
    IF p > Len(sql) THEN 0
    ELSE IF sql[p] = "(" THEN MatchingClose(sql, p + 1, depth + 1)
    ELSE IF sql[p] = ")"
    THEN IF depth = 1 THEN p ELSE MatchingClose(sql, p + 1, depth - 1)
    ELSE MatchingClose(sql, p + 1, depth)

RECURSIVE TopLevelCtesFrom(_, _)
TopLevelCtesFrom(sql, p) ==
    IF /\ p + 2 <= Len(sql)
       /\ IsWord(sql[p])
       /\ Fold(sql[p + 1]) = "AS"
       /\ sql[p + 2] = "("
       /\ MatchingClose(sql, p + 3, 1) # 0
    THEN LET c == MatchingClose(sql, p + 3, 1)
         IN  <<[name |-> sql[p], close |-> c]>>
                 \o (IF c + 1 <= Len(sql) /\ sql[c + 1] = ","
                     THEN TopLevelCtesFrom(sql, c + 2)
                     ELSE <<>>)
    ELSE <<>>

TopLevelCtes(sql) ==
    IF Len(sql) >= 1 /\ Fold(sql[1]) = "WITH"
    THEN TopLevelCtesFrom(sql, 2)
    ELSE <<>>

\* sql is n top-level CTEs followed by a main SELECT
IsCteStatement(sql, n) ==
    LET ctes == TopLevelCtes(sql)
    IN  /\ Len(ctes) = n
        /\ n >= 1
        /\ ctes[n].close + 1 <= Len(sql)
        /\ Fold(sql[ctes[n].close + 1]) = "SELECT"

\* ------------------------------------------------------------ C1
\* C1: the batch form filters with exactly rn > offset AND rn <= offset +
\* batch_size, for every dialect and every query; the row numbers selected at
\* offset and at offset + batch_size are disjoint and together are
\* offset+1 .. offset+2*batch_size.
C1_BatchWindow ==
    syn_pc = "done" =>
        /\ HasRnFilter(batch_sql)
        /\ RnLow(batch_sql) = offset
        /\ RnHigh(batch_sql) = offset + batch_size
        /\ HasRnFilter(next_batch_sql)
        /\ SelectedRowNumbers(batch_sql) \cap SelectedRowNumbers(next_batch_sql)
               = {}
        /\ SelectedRowNumbers(batch_sql) \cup SelectedRowNumbers(next_batch_sql)
               = (offset + 1) .. (offset + 2 * batch_size)

C1_Witness ==
    /\ syn_pc = "done"
    /\ analysis.has_with
    /\ ~SinglePatternSearch(query_config.sql).found
    /\ offset > 0
    /\ batch_size > 1
    /\ SelectedRowNumbers(next_batch_sql) # {}

\* ------------------------------------------------------------ C2
\* C2: in the batch loop of one query the k-th batch statement issued has
\* offset (k-1)*batch_size and size batch_size, so it covers row numbers
\* (k-1)*batch_size+1 .. k*batch_size; the offset has advanced by batch_size
\* once for every batch fetched and uploaded, and not otherwise.
C2_BatchOffsets ==
    /\ \A k \in 1 .. Len(issued) :
           /\ HasRnFilter(issued[k])
           /\ RnLow(issued[k]) = (k - 1) * batch_size
           /\ SelectedRowNumbers(issued[k])
                  = ((k - 1) * batch_size + 1) .. (k * batch_size)
    /\ pc # "idle" => offset = batch_size * Len(uploaded)

C2_Witness ==
    /\ pc = "fetch"
    /\ batch_size = 2
    /\ Len(issued) = 2
    /\ Len(uploaded) = 2
    /\ offset = 4

\* ------------------------------------------------------------ C3
\* C3: a result set of N > 0 rows, batch size S, a gate that always permits
\* and no execution error give ceil(N/S) batches of S rows, the last of
\* N - (ceil(N/S)-1)*S rows, and a ProcessingResult with batch_count =
\* ceil(N/S) and row_count = N.
C3_BatchCounts ==
    ( /\ pc = "next_query"
      /\ query_index >= 1
      /\ faults = {}
      /\ result_rows[query_index] > 0 ) =>
        LET N == result_rows[query_index]
            expected == (N + batch_size - 1) \div batch_size
            result == processing_results[Len(processing_results)]
        IN  /\ outcome = "result"
            /\ Len(uploaded) = expected
            /\ \A k \in 1 .. (expected - 1) :
                   Cardinality(uploaded[k]) = batch_size
            /\ Cardinality(uploaded[expected]) = N - (expected - 1) * batch_size
            /\ result.query_name = query_config.name
            /\ result.batch_count = expected
            /\ result.row_count = N

C3_Witness ==
    /\ pc = "next_query"
    /\ query_index >= 1
    /\ faults = {}
    /\ result_rows[query_index] = 3
    /\ batch_size = 2
    /\ _get_database_type(query_config.database_name) = "mysql"
    /\ query_config.is_incremental
    /\ ~_has_with_clause(query_config.sql)
    /\ uploaded = << {1, 2}, {3} >>
    /\ processing_results[Len(processing_results)].batch_count = 2
    /\ processing_results[Len(processing_results)].row_count = 3

\* ------------------------------------------------------------ C4
\* C4: whenever the record count is 0, process_query returns a
\* ProcessingResult with batch_count, row_count and total_size_bytes 0 and
\* the formatted size of zero bytes; it neither returns None nor raises.
C4_ZeroRowResult ==
    (pc = "next_query" /\ query_index >= 1 /\ record_count = 0) =>
        LET result == processing_results[Len(processing_results)]
        IN  /\ outcome = "result"
            /\ raised = "none"
            /\ result.query_name = query_config.name
            /\ result.batch_count = 0
            /\ result.row_count = 0
            /\ result.total_size_bytes = 0
            /\ result.total_size_formatted = FormatFileSize(0)

C4_Witness ==
    /\ pc = "next_query"
    /\ query_index = 2
    /\ record_count = 0
    /\ result_rows[query_index] = 0
    /\ Len(processing_results) = 2
    /\ processing_results[2].query_name = "q2"
    /\ processing_results[2].batch_count = 0

\* ------------------------------------------------------------ C5
\* C5: when the count statement executes and its scalar is null,
\* get_record_count returns 0 and raises nothing, with or without a WITH
\* clause, incremental or full load.
C5_NullScalarIsZero ==
    "count_null" \in faults =>
        /\ record_count = 0
        /\ raised = "none"
        /\ outcome # "raised"
        /\ pc # "failed"

C5_Witness ==
    /\ "count_null" \in faults
    /\ _has_with_clause(query_config.sql)
    /\ ~query_config.is_incremental
    /\ result_rows[query_index] > 0
    /\ record_count = 0
    /\ pc = "next_query"

\* ------------------------------------------------------------ C6
\* C6: _get_record_count_with_fallback never raises, whatever the connection
\* does at each statement; and when every row-existence probe returns a row
\* while every structural count fails, it returns the sentinel 1.
FbStepsWith(step, result) ==
    {k \in 1 .. Len(fb_history) :
        fb_history[k][1] = step /\ fb_history[k][2] = result}

FbSteps(step) == {k \in 1 .. Len(fb_history) : fb_history[k][1] = step}

C6_FallbackNeverRaises ==
    /\ ~fb_raised
    /\ fb_pc = "returned" => Len(fb_result) = 1
    /\ ( /\ fb_pc = "returned"
         /\ FbSteps("probe") # {}
         /\ FbSteps("probe") = FbStepsWith("probe", "row")
         /\ FbSteps("wide_probe") = FbStepsWith("wide_probe", "row")
         /\ FbSteps("count") = FbStepsWith("count", "fail")
         /\ FbSteps("recount") = FbStepsWith("recount", "fail") )
           => fb_result = <<1>>

C6_Witness ==
    /\ fb_pc = "returned"
    /\ fb_history = << <<"connect", "ok">>, <<"probe", "row">>,
                       <<"count", "fail">>, <<"wide_probe", "row">>,
                       <<"recount", "fail">> >>
    /\ fb_result = <<1>>
    /\ ~fb_raised
    /\ result_rows[1] > 1

\* ------------------------------------------------------------ C7
\* C7: when the analyzer finds no WITH clause, the count form, the header
\* probe (either dialect) and the batch form each contain the whole original
\* SQL text unchanged inside a parenthesised subquery.
C7_VerbatimWithoutWith ==
    (syn_pc = "done" /\ ~analysis.has_with) =>
        /\ WrapsVerbatim(count_sql, query_config.sql)
        /\ WrapsVerbatim(header_sql, query_config.sql)
        /\ WrapsVerbatim(batch_sql, query_config.sql)
        /\ WrapsVerbatim(next_batch_sql, query_config.sql)

C7_Witness ==
    /\ syn_pc = "done"
    /\ ~analysis.has_with
    /\ _get_database_type(query_config.database_name) = "mysql"
    /\ WrapsVerbatim(header_sql, query_config.sql)

\* ------------------------------------------------------------ C8
\* C8: for N >= 2 top-level CTEs "WITH A AS (..), B AS (..), .. SELECT ..",
\* the analysis has is_complex = true and N names.
C8_MultiCteIsComplex ==
    \A n \in 2 .. (MaxCtes + 1) :
        (syn_pc # "input" /\ IsCteStatement(query_config.sql, n)) =>
            /\ analysis.is_complex
            /\ Len(analysis.cte_names) = n

\* ------------------------------------------------------------ C9
\* C9 as stated: for exactly one top-level CTE, cte_count = 1 and cte_names
\* is the one identifier.
C9_SingleCteAsStated ==
    (syn_pc # "input" /\ IsCteStatement(query_config.sql, 1)) =>
        /\ analysis.cte_count = 1
        /\ analysis.cte_names = <<TopLevelCtes(query_config.sql)[1].name>>

\* C9 amended: for "WITH <identifier> AS (<body>) SELECT .." in which
\* "WITH <identifier> AS (" occurs only once (no WITH nested in the body or
\* the main query), cte_count = 1 and cte_names is the one identifier.
C9_SingleCte ==
    ( /\ syn_pc # "input"
      /\ IsCteStatement(query_config.sql, 1)
      /\ Cardinality(WithMatches(query_config.sql)) = 1 ) =>
        /\ analysis.cte_count = 1
        /\ analysis.cte_names = <<TopLevelCtes(query_config.sql)[1].name>>

C9_Witness ==
    /\ syn_pc = "analyzed"
    /\ IsCteStatement(query_config.sql, 1)
    /\ Cardinality(WithMatches(query_config.sql)) = 1
    /\ analysis.cte_names = <<"A">>
    /\ \E i \in 1 .. Len(query_config.sql) :
           query_config.sql[i] = "(" /\ i > 4

\* ------------------------------------------------------------ C10
\* C10: for every header list, the outer column projection of the batch form
\* has no column named rn.
C10_NoRnProjected ==
    syn_pc \in {"batched", "done"} =>
        \A i \in 1 .. Len(select_columns) : select_columns[i] # "rn"

\* ------------------------------------------------------------ C11
\* the CTE definitions of a statement of n top-level CTEs, and its main SELECT
CteDefinitions(sql, n) == SubSeq(sql, 1, TopLevelCtes(sql)[n].close)

MainStatement(sql, n) == Tail0(sql, TopLevelCtes(sql)[n].close + 1)

HoistedCount(sql, n) ==
    CteDefinitions(sql, n)
        \o <<"SELECT", "COUNT(*)", "as", "record_count", "FROM", "(">>
        \o MainStatement(sql, n) \o <<")", "as", "subquery">>

\* a ")" directly followed by SELECT inside the CTE definitions
CloseThenSelectInside(sql, n) ==
    \E j \in 1 .. (TopLevelCtes(sql)[n].close - 1) :
        sql[j] = ")" /\ Fold(sql[j + 1]) = "SELECT"

\* C11 as stated: for "WITH X AS (..), Y AS (..) SELECT ..", the count form
\* is both CTE definitions verbatim, then the SELECT COUNT(*) projection, with
\* the main SELECT only inside the counted subquery.
C11_TwoCteCountAsStated ==
    ( /\ syn_pc \in {"counted", "probed", "batched", "done"}
      /\ IsCteStatement(query_config.sql, 2) ) =>
        count_sql = HoistedCount(query_config.sql, 2)

\* C11 amended: the same, for CTE bodies in which no ")" is directly followed
\* by SELECT (no WITH nested in a body).
C11_TwoCteCount ==
    ( /\ syn_pc \in {"counted", "probed", "batched", "done"}
      /\ IsCteStatement(query_config.sql, 2)
      /\ ~CloseThenSelectInside(query_config.sql, 2) ) =>
        count_sql = HoistedCount(query_config.sql, 2)

C11_Witness ==
    /\ syn_pc = "counted"
    /\ IsCteStatement(query_config.sql, 2)
    /\ ~CloseThenSelectInside(query_config.sql, 2)
    /\ TopLevelCtes(query_config.sql)[2].name = "B"
    /\ MainStatement(query_config.sql, 2)
           = <<"SELECT", "*", "FROM", "A", "WHERE", "ts", ">", ":last_run_time">>
    /\ count_sql = HoistedCount(query_config.sql, 2)
    /\ \E i \in 5 .. TopLevelCtes(query_config.sql)[1].close - 1 :
           query_config.sql[i] = ")"

\* ------------------------------------------------------------ C12
\* the instant of an aware datetime, in UTC hours
Instant(d) == d.wall - d.utcoffset

\* the SystemDate the MAX(SystemDate) statement delivered, <<>> when it
\* failed or had no rows
DeliveredSystemDate ==
    CASE max_date_outcome.kind = "datetime" -> max_date_outcome.value
      [] max_date_outcome.kind = "str"
           /\ max_date_outcome.text = <<"12">> -> <<Datetime(12, 0, FALSE, 0)>>
      [] max_date_outcome.kind = "str"
           /\ max_date_outcome.text = <<"12", "+", "0">> ->
                <<Datetime(12, 0, TRUE, 0)>>
      [] OTHER -> <<>>

\* C12: when process_all_queries returns, the watermark is the maximum
\* SystemDate with the fixed zone attached to its unchanged wall clock if it
\* is naive, the same instant on the fixed zone's wall clock if it is aware,
\* and the current time in the fixed zone when the statement failed or had no
\* rows; computing it raises nothing.
C12_Watermark ==
    pc = "done" =>
        /\ raised = "none"
        /\ Len(update_run_time) = 1
        /\ update_run_time[1].aware
        /\ update_run_time[1].utcoffset = JST
        /\ \A d \in {DeliveredSystemDate[i] : i \in DOMAIN DeliveredSystemDate} :
               /\ update_run_time[1].micro = d.micro
               /\ ~d.aware => update_run_time[1].wall = d.wall
               /\ d.aware => Instant(update_run_time[1]) = Instant(d)
        /\ max_date_outcome.kind \in {"fail", "null"} =>
               /\ update_run_time[1].wall = clock.wall
               /\ Instant(update_run_time[1]) = Instant(clock)

C12_Witness ==
    /\ pc = "done"
    /\ max_date_outcome.kind = "datetime"
    /\ max_date_outcome.value = <<Datetime(12, 7, TRUE, 0)>>
    /\ update_run_time = <<Datetime(21, 7, TRUE, JST)>>
    /\ Len(processing_results) = 2

\* ------------------------------------------------------------ C13
EventsOf(kind) == {k \in 1 .. Len(events) : events[k] = kind}

\* C13: every execution of a batch statement directly follows a gate poll
\* that returned true; a gate poll that returns false is the last thing the
\* loop does: CsvGenerationException leaves process_all_queries, that batch is
\* neither synthesized nor executed, the gate is not polled again, the query
\* gets no ProcessingResult and no later query is started.
C13_GateBeforeBatch ==
    /\ \A k \in EventsOf("execute") : k > 1 /\ events[k - 1] = "gate_true"
    /\ Len(issued) = Cardinality(EventsOf("execute"))
    /\ "gate_denied" \in faults =>
           /\ raised = "CsvGenerationException"
           /\ pc = "failed"
           /\ outcome = "raised"
           /\ events[Len(events)] = "gate_false"
           /\ Cardinality(EventsOf("gate_false")) = 1
           /\ Len(issued) = Cardinality(EventsOf("gate_true"))
           /\ \A i \in 1 .. Len(processing_results) :
                  processing_results[i].query_name # query_config.name
           /\ update_run_time = <<>>
    /\ raised # "none" => pc = "failed"

C13_Witness ==
    /\ "gate_denied" \in faults
    /\ events = <<"gate_true", "execute", "gate_false">>
    /\ query_index = 1
    /\ Len(uploaded) = 1
    /\ pc = "failed"

\* ------------------------------------------------------------ C14
\* C14: a count or header retrieval that fails with an execution error skips
\* only that query: nothing is raised out of process_all_queries, which goes
\* on with the remaining queries and returns its results and the watermark.
C14_FailedQueryIsSkipped ==
    (faults \cap {"count_fail", "headers_fail"}) # {} =>
        /\ raised = "none"
        /\ pc # "failed"
        /\ outcome = "skipped"

\* ------------------------------------------------------------ C15
RECURSIVE UploadedRows(_)
UploadedRows(batches) ==
    IF batches = <<>> THEN 0
    ELSE Cardinality(Head(batches)) + UploadedRows(Tail(batches))

RECURSIVE UploadedBytes(_)
UploadedBytes(batches) ==
    IF batches = <<>> THEN 0
    ELSE UploadBatchBytes(Head(batches)) + UploadedBytes(Tail(batches))

\* C15: any error while fetching, encoding or uploading a batch
\* ends the loop without raising, and the ProcessingResult returned holds
\* the batch, row and byte totals of the batches completed before the error.
C15_BatchErrorKeepsTotals ==
    (faults \cap {"execute_fail", "upload_fail", "csv_exception"}) # {} =>
        /\ raised = "none"
        /\ pc \in {"return", "next_query", "done"}
        /\ pc # "return" =>
               LET result == processing_results[Len(processing_results)]
               IN  /\ outcome = "result"
                   /\ result.query_name = query_config.name
                   /\ result.batch_count = Len(uploaded)
                   /\ result.row_count = UploadedRows(uploaded)
                   /\ result.total_size_bytes = UploadedBytes(uploaded)

\* ------------------------------------------------------------ C16
\* C16: when the count statement of a WITH query fails, process_query does
\* not end in an error: the count is resolved by the fallback (1 when the
\* query has data) and the query goes on to the header probe and batching.
C16_WithCountFailureFallsBack ==
    ("count_fail" \in faults /\ _has_with_clause(query_config.sql)) =>
        /\ raised = "none"
        /\ pc # "failed"
        /\ result_rows[query_index] > 0 => record_count = 1

\* ------------------------------------------------------------ C17
\* the configured type field of the database, <<>> when the application
\* config is missing, the name is unknown or the entry has no usable type
ConfiguredType ==
    IF database_manager.app_config = <<>> THEN <<>>
    ELSE IF database_name \notin DOMAIN database_manager.app_config[1].databases
    THEN <<>>
    ELSE IF database_manager.app_config[1].databases[database_name]
                \in {NoTypeAttribute, None}
    THEN <<>>
    ELSE <<database_manager.app_config[1].databases[database_name]>>

LowerCased ==
    [MSSQL |-> "mssql", MySQL |-> "mysql", mysql |-> "mysql",
     Oracle |-> "oracle"]

\* C17: _get_database_type raises nothing; it returns 'mssql' when the
\* application config is missing, the database name is unknown or the entry
\* has no usable type field, and the configured type in lower case otherwise.
C17_DialectDefault ==
    dialect_pc = "returned" =>
        /\ ~dialect_raised
        /\ ConfiguredType = <<>> => dialect_type = "mssql"
        /\ ConfiguredType # <<>> =>
               dialect_type = LowerCased[ConfiguredType[1]]

C17_Witness ==
    /\ dialect_pc = "returned"
    /\ database_manager.app_config # <<>>
    /\ database_name \in DOMAIN database_manager.app_config[1].databases
    /\ database_manager.app_config[1].databases[database_name] = None
    /\ dialect_type = "mssql"

\* ------------------------------------------------------------ C19
FoldSeq(sql) == [i \in 1 .. Len(sql) |-> Fold(sql[i])]

HasPlaceholder(sql) == \E i \in 1 .. Len(sql) : sql[i] = ":last_run_time"

HasWhere(sql) == \E i \in 1 .. Len(sql) : Fold(sql[i]) = "WHERE"

\* "SystemDate BETWEEN <start> AND <end>" with the timestamps as SQL literals
BetweenClause(start, end) ==
    <<"SystemDate", "BETWEEN">> \o QuotedLiteral(start) \o <<"AND">>
        \o QuotedLiteral(end)

\* text is sql with clause put in somewhere after a WHERE
AppendedToWhere(text, sql, clause) ==
    \E p \in 1 .. Len(sql) :
        /\ \E i \in 1 .. p : Fold(sql[i]) = "WHERE"
        /\ FoldSeq(text)
               = FoldSeq(SubSeq(sql, 1, p) \o clause \o Tail0(sql, p + 1))

\* C19: with range filtering enabled the rewrite is, in this order: the
\* :last_run_time placeholder replaced by the literal start timestamp if the
\* SQL has one; else AND SystemDate BETWEEN <start> AND <end> appended to the
\* WHERE if the SQL has one; else a new WHERE SystemDate BETWEEN <start> AND
\* <end> appended. With range filtering disabled the SQL is unchanged.
C19_RangeRewriteOrder ==
    range_pc \in {"applied", "returned"} =>
        LET sql == query_config.sql
            start == StartDateStr(systemdate_config, last_run_time)
            end == EndDateStr(systemdate_config, now_text)
        IN  IF ~systemdate_config.enabled THEN applied_sql = sql
            ELSE IF HasPlaceholder(sql)
            THEN applied_sql = ReplaceLastRunTime(sql, QuotedLiteral(start))
            ELSE IF HasWhere(sql)
            THEN AppendedToWhere(applied_sql, sql,
                                 <<"AND">> \o BetweenClause(start, end))
            ELSE applied_sql = sql \o <<"WHERE">> \o BetweenClause(start, end)

\* ------------------------------------------------------------ C18
\* C18: process_query_with_systemdate_range leaves every field of the
\* QueryConfig it is given as it was; what it returns is either that object
\* (an internal failure) or a copy whose fields other than sql equal the
\* original's, with the date range in its sql for an incremental query with a
\* timestamp column and the original's sql otherwise.
C18_CloneKeepsOriginal ==
    range_pc = "returned" =>
        /\ query_config = given_config
        /\ returned_original => returned_config = given_config
        /\ ~returned_original =>
               /\ \A field \in DOMAIN given_config \ {"sql"} :
                      returned_config[field] = given_config[field]
               /\ returned_config.sql =
                      IF /\ given_config.is_incremental
                         /\ given_config.timestamp_column \notin {None, ""}
                      THEN applied_sql
                      ELSE given_config.sql

\* ------------------------------------------------------------ C20
\* C20: once the rows processed for a query have reached the count obtained
\* by get_record_count, no further batch statement is synthesized or
\* executed for it.
C20_StopsAtCount ==
    [][(pc \in {"gate", "fetch"} /\ processed_rows >= record_count)
           => issued' = issued]_vars

\* ------------------------------------------------------------ C21
\* C21: a failure of the 1-row probe, the structural count, the widened
\* probe or the retried count is caught and control goes on to the next step
\* of the strategy: the structural count after the probe, the widened probe
\* after the count, the sentinel after the widened probe and the retried
\* count; a failing 1-row probe does not by itself end the call with a value.
C21_FailureFallsThrough ==
    (fb_history # <<>> /\ fb_history[Len(fb_history)][2] = "fail"
        /\ fb_history[Len(fb_history)][1] # "connect") =>
        LET step == fb_history[Len(fb_history)][1]
        IN  /\ ~fb_raised
            /\ CASE step = "probe" -> fb_pc = "count"
                 [] step = "count" -> fb_pc = "wide_probe"
                 [] OTHER -> fb_pc = "returned" /\ fb_result = <<1>>

\* ------------------------------------------------------------ C22
\* C22: _analyze_with_structure returns for every text without an exception
\* leaving it, and when the has_with it returns is false, cte_count is 0,
\* cte_names is empty, main_query is the empty string and is_complex is false.
C22_AnalyzerTolerant ==
    /\ syn_pc # "raised"
    /\ (syn_pc = "analyzed" /\ ~analysis.has_with) =>
           /\ analysis.cte_count = 0
           /\ analysis.cte_names = <<>>
           /\ analysis.main_query = <<>>
           /\ ~analysis.is_complex

\* a text that holds the word WITH but no CTE head has been analyzed
C22_Witness ==
    /\ syn_pc = "analyzed"
    /\ \E i \in 1 .. Len(query_config.sql) :
           Fold(query_config.sql[i]) = "WITH"
    /\ ~analysis.has_with

\* ------------------------------------------------------------ C23
\* the WITH heads of a text in order of position
RECURSIVE WithHeadsFrom(_, _)
WithHeadsFrom(sql, p) ==
    LET later == {i \in WithMatches(sql) : i >= p}
    IN  IF later = {} THEN <<>>
        ELSE <<Min(later)>> \o WithHeadsFrom(sql, Min(later) + 1)

\* the text after the ")" that closes the "(" of the WITH head at position i
AfterMatchingClose(sql, i) ==
    LET close == MatchingClose(sql, i + 4, 1)
    IN  IF close = 0 THEN <<>> ELSE Tail0(sql, close + 1)

\* C23: when the text has two or more "WITH <identifier> AS (" heads,
\* cte_names holds the identifier of each of them (as many as cte_count) and
\* main_query is the text after the parenthesis that closes the last head's
\* opening parenthesis, nested parentheses in CTE bodies included.
C23_MultiCteNamesAndMain ==
    (syn_pc # "input" /\ Cardinality(WithMatches(query_config.sql)) >= 2) =>
        LET sql == query_config.sql
            heads == WithHeadsFrom(sql, 1)
        IN  /\ Len(analysis.cte_names) = analysis.cte_count
            /\ analysis.cte_names = [k \in 1 .. Len(heads) |-> sql[heads[k] + 1]]
            /\ analysis.main_query = AfterMatchingClose(sql, heads[Len(heads)])

\* ------------------------------------------------------------ C24
\* C24: get_record_count, get_headers, execute_batch and the fallback count
\* bind last_run_time to the statement they execute exactly when the query is
\* incremental and its timestamp_column is not None; otherwise the statement
\* is executed with no parameters.
C24_BindsIffIncrementalWithColumn ==
    LET needs ==
            query_config.is_incremental /\ query_config.timestamp_column # None
    IN  /\ \A i \in 1 .. Len(statements) :
               statements[i].params = IF needs THEN {"last_run_time"} ELSE {}
        /\ \A i \in 1 .. Len(fb_statements) : fb_statements[i].bound = needs

\* an incremental query without timestamp column has gone through the three
\* calls and the four statements of the fallback, all without parameters
C24_Witness ==
    /\ query_config.is_incremental
    /\ query_config.timestamp_column = None
    /\ Len(statements) = 3
    /\ Len(fb_statements) = 4
    /\ \A i \in 1 .. 3 : statements[i].params = {}
    /\ \A i \in 1 .. 4 : ~fb_statements[i].bound

\* ------------------------------------------------------------ C25
\* C25: each count, header and batch-execute call of a run takes one
\* connection and gives it back before it returns, normally or by raising:
\* no more than one connection is ever checked out at once, and none is
\* checked out while the gate is polled, between two batches or between two
\* queries.
C25_ConnectionPerCall ==
    /\ pool.peak <= 1
    /\ pc \in {"next_query", "count", "headers", "gate", "fetch", "upload",
               "return", "done", "failed"} => pool.held = 0

\* a batch statement has failed and the loop has been left
C25_Witness ==
    /\ pc = "return"
    /\ "execute_fail" \in faults
    /\ Len(issued) = 2
    /\ pool = [held |-> 0, peak |-> 1]

\* ------------------------------------------------------------ C26
\* C26: in every ProcessingResult that _process_batches returns, batch_count
\* is the number of batches whose upload completed and row_count is the
\* number of rows of those batches, also when encoding or uploading a batch
\* failed and ended the loop.
C26_ResultCountsUploadedBatches ==
    (pc \in {"next_query", "done"} /\ outcome = "result" /\ record_count > 0) =>
        LET result == processing_results[Len(processing_results)]
        IN  /\ result.batch_count = Len(uploaded)
            /\ result.row_count = UploadedRows(uploaded)

\* ------------------------------------------------------------ C27
\* ceil(N / batch_size) + 1 for the N rows of the current query's result set
BatchExecutionBound ==
    ((result_rows[query_index] + batch_size - 1) \div batch_size) + 1

InBatchLoop == pc \in {"gate", "fetch", "upload"}

\* a quantity that every step staying in the loop makes smaller: the batch
\* executions left, then the position inside one iteration
LoopMeasure ==
    3 * (BatchExecutionBound - Len(issued))
        + (CASE pc = "fetch" -> 0 [] pc = "gate" -> 1 [] pc = "upload" -> 2)

UsesDialectLimit(sql, database_type) ==
    IF database_type = "mysql"
    THEN /\ Len(sql) >= 2
         /\ sql[Len(sql) - 1] = "LIMIT"
         /\ sql[Len(sql)] \in {"1", "1000"}
         /\ \A i \in 1 .. Len(sql) : sql[i] # "TOP"
    ELSE /\ \E i \in 1 .. (Len(sql) - 2) :
                /\ Fold(sql[i]) = "SELECT"
                /\ sql[i + 1] = "TOP"
                /\ sql[i + 2] \in {"1", "1000"}
         /\ \A i \in 1 .. Len(sql) : sql[i] # "LIMIT"

\* C28: every existence probe that _get_record_count_with_fallback executes,
\* the 1-row probe and the widened 1000-row probe, limits its rows in the
\* syntax of the query's resolved dialect.
C28_ProbesUseDialectLimit ==
    \A i \in 1 .. Len(fb_statements) :
        fb_history[i + 1][1] \in {"probe", "wide_probe"} =>
            UsesDialectLimit(fb_statements[i].sql,
                             _get_database_type(query_config.database_name))

====
